---- MODULE Spec2Model ----
(***************************************************************************)
(* Model of the event manager of omni.isaac.lab                            *)
(* (source/extensions/omni.isaac.lab/omni/isaac/lab/managers/              *)
(* event_manager.py): the term lists and per-term buffers built by         *)
(* EventManager._prepare_terms, and EventManager.apply, which walks the    *)
(* terms of one mode, updates the interval timers and the reset gates and  *)
(* invokes the term functions; EventManager.reset, set_term_cfg and        *)
(* get_term_cfg; an ObservationManager holding the terms of                *)
(* test/managers/test_observation_manager.py; and the conversions of a     *)
(* multi-agent environment of envs/utils.py.                               *)
(*                                                                         *)
(* Spec        apply on managers built from valid configurations           *)
(* SpecLife    construction from any configuration, then apply and reset   *)
(* SpecEdit    set_term_cfg, get_term_cfg and reset                        *)
(* SpecObs     compute and reset of the ObservationManager                 *)
(* SpecGroups  construction and compute of observation groups              *)
(* SpecWrap    step of a converted multi-agent environment                 *)
(*                                                                         *)
(* Tensors are functions over 0-based positions.  A float32 entry is held   *)
(* as the integer of its IEEE-754 bits (negated below zero), and addition, *)
(* subtraction and multiplication round to the nearest float32, ties to    *)
(* even, as the tensor runtime does.  torch.rand is a nondeterministic     *)
(* choice among the values it is given.                                    *)
(***************************************************************************)
EXTENDS Integers, Sequences, FiniteSets, TLC

VARIABLES
    cfg,                                \* the configuration handed to the constructor (term items in declaration order)
    step_dt,                            \* the time step the driving loop passes as dt (a Python float, kept as a fraction)
    mode_term_names,                    \* self._mode_term_names: mode -> list of term names
    mode_term_cfgs,                     \* self._mode_term_cfgs: mode -> list of term descriptors
    mode_class_term_cfgs,               \* self._mode_class_term_cfgs: mode -> list of the descriptors of class terms
    interval_term_time_left,            \* self._interval_term_time_left: list of float32 tensors
    reset_term_last_triggered_step_id,  \* self._reset_term_last_triggered_step_id: list of int32 tensors
    calls_since_fire,                   \* per timer entry: apply("interval") calls since the entry last elapsed
    obs_cfg,                            \* the configuration handed to the ObservationManager constructor
    group_obs_term_cfgs,                \* ObservationManager: group -> list of term descriptors
    time_passed,                        \* complex_function_class._time_passed of each instance: float32 tensors
    computes_total,                     \* compute() calls since construction
    computes_since_reset,               \* per environment: compute() calls since reset() last named it
    self_env,                           \* self.env of a converted environment: the multi-agent environment it wraps
    last                                \* the last call made on the manager: arguments, state before it, outcome

\* The state of an EventManager and of an ObservationManager.
event_vars == <<cfg, step_dt, mode_term_names, mode_term_cfgs, mode_class_term_cfgs,
                interval_term_time_left, reset_term_last_triggered_step_id, calls_since_fire>>
obs_vars == <<obs_cfg, group_obs_term_cfgs, time_passed, computes_total, computes_since_reset>>

\* The state of a converted multi-agent environment.
env_vars == <<self_env>>

vars == <<event_vars, obs_vars, env_vars, last>>

\* Number of parallel environments (env.num_envs).
NumEnvs == 2
\* Largest global environment step count passed to apply.
MaxStep == 2

Envs == 0 .. (NumEnvs - 1)

-----------------------------------------------------------------------------
(* float32 arithmetic *)

\* 2^0 .. 2^30, the powers of two an integer of the model can hold.
Pow2Table ==
    <<1, 2, 4, 8, 16, 32, 64, 128,
      256, 512, 1024, 2048, 4096, 8192, 16384, 32768,
      65536, 131072, 262144, 524288, 1048576, 2097152, 4194304, 8388608,
      16777216, 33554432, 67108864, 134217728, 268435456, 536870912, 1073741824>>

Pow2(n) == Pow2Table[n + 1]

\* A float32 value is held as an integer that orders as the values do: for
\* v >= 0 the bits of v (biased exponent * 2^23 + fraction), for v < 0 the
\* bits of -v, negated.  0 is 0.0; v is m * 2^(x - 150) for the significand m
\* and the exponent x of its bits.  No value of the model is an infinity or a
\* NaN.

\* The hidden bit of a normal significand.
HiddenBit == Pow2(23)

\* The first value that needs more than the 24 bits of a float32 significand.
SignificandLimit == Pow2(24)

Abs(i) == IF i < 0 THEN 0 - i ELSE i

\* The significand of a float32: without the hidden bit for a subnormal.
Significand(v) ==
    IF Abs(v) < HiddenBit THEN Abs(v) ELSE HiddenBit + (Abs(v) % HiddenBit)

\* The exponent field of a float32; a subnormal counts as exponent 1.
Exponent(v) == IF Abs(v) < HiddenBit THEN 1 ELSE Abs(v) \div HiddenBit

\* The number of bits of n >= 0.
RECURSIVE BitLength(_)
BitLength(n) == IF n = 0 THEN 0 ELSE 1 + BitLength(n \div 2)

\* The float32 nearest to (S + f) * 2^(x - 150), ties to even, where S >= 0
\* is an integer and 0 <= f < 1 with f > 0 exactly when sticky (sticky only
\* with S of 25 bits or more).
PackF32(S, sticky, x) ==
    IF S = 0 THEN 0
    ELSE LET over  == BitLength(S) - 24
             under == 1 - x
             drop  == IF over > under THEN over ELSE under
         IN  IF drop > 30 THEN 0
             ELSE IF drop > 0
             THEN LET q    == S \div Pow2(drop)
                      r    == S % Pow2(drop)
                      half == Pow2(drop - 1)
                      up   == r > half \/ (r = half /\ (sticky \/ q % 2 = 1))
                  IN  (x + drop - 1) * HiddenBit + (IF up THEN q + 1 ELSE q)
             ELSE LET room == IF 0 - over < x - 1 THEN 0 - over ELSE x - 1
                  IN  (x - room - 1) * HiddenBit + S * Pow2(room)

\* float32 addition a + b.
F32Add(a, b) ==
    IF a = 0 THEN b
    ELSE IF b = 0 THEN a
    ELSE LET big   == IF Abs(a) >= Abs(b) THEN a ELSE b
             small == IF Abs(a) >= Abs(b) THEN b ELSE a
             mb    == Significand(big)
             ms    == Significand(small)
             d     == Exponent(big) - Exponent(small)
             same  == (a > 0) = (b > 0)
             \* the exact sum when the exponents are close
             near  == PackF32(IF same THEN mb * Pow2(d) + ms ELSE mb * Pow2(d) - ms,
                              FALSE, Exponent(small))
             \* otherwise three more bits of the larger operand and what is
             \* left of the smaller one under them
             cut   == d - 3
             whole == IF cut > 30 THEN 0 ELSE ms \div Pow2(cut)
             exact == cut <= 30 /\ ms % Pow2(cut) = 0
             far   == PackF32(IF same THEN 8 * mb + whole
                              ELSE IF exact THEN 8 * mb - whole
                              ELSE 8 * mb - whole - 1,
                              ~exact, Exponent(big) - 3)
             key   == IF d <= 6 THEN near ELSE far
         IN  IF big > 0 THEN key ELSE 0 - key

\* float32 subtraction a - b.
F32Sub(a, b) == F32Add(a, 0 - b)

\* A significand m # 0 with exponent x, shifted up until the hidden bit is set.
RECURSIVE Normalized(_, _)
Normalized(m, x) == IF m >= HiddenBit THEN <<m, x>> ELSE Normalized(2 * m, x - 1)

\* float32 multiplication a * b: the 48-bit product of the significands is
\* taken in halves of 12 bits.
F32Mul(a, b) ==
    IF a = 0 \/ b = 0 THEN 0
    ELSE LET na   == Normalized(Significand(a), Exponent(a))
             nb   == Normalized(Significand(b), Exponent(b))
             a1   == na[1] \div Pow2(12)
             a0   == na[1] % Pow2(12)
             b1   == nb[1] \div Pow2(12)
             b0   == nb[1] % Pow2(12)
             mid  == a1 * b0 + a0 * b1
             low  == (mid % Pow2(12)) * Pow2(12) + a0 * b0
             high == a1 * b1 + (mid \div Pow2(12)) + (low \div Pow2(24))
             rest == low % Pow2(24)
             key  == PackF32(4 * high + (rest \div Pow2(22)), rest % Pow2(22) # 0,
                             na[2] + nb[2] - 128)
         IN  IF (a > 0) = (b > 0) THEN key ELSE 0 - key

\* n/d with d <= n < 2d, and the power of two taken out of the fraction.
RECURSIVE RatioExponent(_, _, _)
RatioExponent(n, d, k) ==
    IF n < d THEN RatioExponent(2 * n, d, k - 1)
    ELSE IF n >= 2 * d THEN RatioExponent(n, 2 * d, k + 1)
    ELSE <<n, d, k>>

\* i more bits of the quotient q with remainder r of a division by d.
RECURSIVE QuotientBits(_, _, _, _)
QuotientBits(q, r, d, i) ==
    IF i = 0 THEN <<q, r>>
    ELSE IF 2 * r >= d THEN QuotientBits(2 * q + 1, 2 * r - d, d, i - 1)
    ELSE QuotientBits(2 * q, 2 * r, d, i - 1)

\* A Python float given as the fraction r[1]/r[2] (r[2] > 0), cast to float32.
F32OfFloat(r) ==
    IF r[1] = 0 THEN 0
    ELSE LET e   == RatioExponent(Abs(r[1]), r[2], 0)
             qr  == QuotientBits(1, e[1] - e[2], e[2], 25)
             key == PackF32(qr[1], qr[2] # 0, e[3] + 125)
         IN  IF r[1] > 0 THEN key ELSE 0 - key

\* A float32 tensor entry times a Python float r[1]/r[2].
F32Scale(a, r) == F32Mul(a, F32OfFloat(r))

-----------------------------------------------------------------------------
(* configuration: term descriptors (EventTermCfg) and the manager's cfg *)

\* Python floats used in configurations, as fractions of a second.
Fifth == <<1, 5>>
Half == <<1, 2>>
One == <<1, 1>>
ThreeFifths == <<3, 5>>
SevenTenths == <<7, 10>>

NoRange == <<>>

\* What the func field of a descriptor refers to: a plain function, a class
\* derived from ManagerTermBase, or an instance of such a class.
FunctionRef == [kind |-> "function", id |-> 0]
ClassRef(c) == [kind |-> "class", id |-> c]
InstanceOf(c) == [kind |-> "instance", id |-> c]

\* An EventTermCfg: the fields EventManager reads.  func is a plain function
\* unless replaced.
TermCfg(mode, min_step, range, is_global) ==
    [type |-> "EventTermCfg",
     func |-> FunctionRef,
     mode |-> mode,
     min_step_count_between_reset |-> min_step,
     interval_range_s |-> range,
     is_global_time |-> is_global]

\* A configuration entry set to None, and an entry that is not a descriptor.
None == [type |-> "NoneType"]
NotATermCfg == [type |-> "int"]

IsNone(term_cfg) == term_cfg.type = "NoneType"
IsEventTermCfg(term_cfg) == term_cfg.type = "EventTermCfg"

ResetTermCfgs == {TermCfg("reset", n, NoRange, FALSE) : n \in {0, 1, 2}}

\* The interval_range_s of the interval terms: two fixed intervals, and two
\* random ones, the second with bounds that are not float32 values.
IntervalRanges == {<<Half, Half>>, <<One, One>>, <<Half, One>>, <<ThreeFifths, SevenTenths>>}

IntervalTermCfgs ==
    {TermCfg("interval", 0, r, g) : r \in IntervalRanges, g \in BOOLEAN}

\* Modes without timing or gating; the second carries a min_step_count_between_reset
\* that _prepare_terms warns about and keeps.
OtherTermCfgs ==
    {TermCfg("startup", 0, NoRange, FALSE), TermCfg("custom", 2, NoRange, FALSE)}

TermCfgs == ResetTermCfgs \cup IntervalTermCfgs \cup OtherTermCfgs

\* The modes apply is called with.  A mode no term of the configuration has is
\* an undefined mode for that manager.
Modes == {"startup", "reset", "interval", "custom"}

TermName(i) == <<"t0", "t1", "t2", "t3", "t4">>[i + 1]

\* torch.rand returns any float32 k / 2^24 with 0 <= k < 2^24.  The operators
\* that sample take the set of values torch.rand may return (draws) as an
\* argument.  The driving loops do not enumerate the 2^24 values: they pass
\* NumDraws of them evenly spaced from 0 on (0 and 0.5 for two), and the
\* largest, 1 - 2^-24.
NumDraws == 2

RandDraws ==
    {<<(k * SignificandLimit) \div NumDraws, SignificandLimit>> : k \in 0 .. (NumDraws - 1)}
        \cup {<<SignificandLimit - 1, SignificandLimit>>}

\* upper - lower on Python floats given as fractions.
FloatSub(upper, lower) == <<upper[1] * lower[2] - lower[1] * upper[2], upper[2] * lower[2]>>

\* rand * (upper - lower) + lower on float32, for one entry rand of the
\* tensor torch.rand returned.
Sample(range, rand) ==
    F32Add(F32Mul(F32OfFloat(rand), F32OfFloat(FloatSub(range[2], range[1]))),
           F32OfFloat(range[1]))

\* torch.rand(n) * (upper - lower) + lower, written to the positions of
\* shape: the tensors whose every entry is the sample of a value torch.rand
\* may return.
SampledTensors(shape, range, draws) ==
    [shape -> {Sample(range, rand) : rand \in draws}]

IsDegenerate(range) == range[1] = range[2]

HasFixedInterval(t) == t.mode = "interval" => IsDegenerate(t.interval_range_s)

\* An interval term with one independent random timer per environment.
HasRandomPerEnvTimer(t) ==
    t.mode = "interval" /\ ~t.is_global_time /\ ~IsDegenerate(t.interval_range_s)

\* The configurations the driving loop is started on: one or two terms, in
\* declaration order.  Of the pairs, those are left out in which a term with
\* independent random timers per environment stands beside a term that has a
\* buffer of its own (an interval or a reset term).
EventCfgs ==
    {<<a>> : a \in TermCfgs} \cup
    {p \in TermCfgs \X TermCfgs :
        /\ HasRandomPerEnvTimer(p[1]) => p[2] \in OtherTermCfgs
        /\ HasRandomPerEnvTimer(p[2]) => p[1] \in OtherTermCfgs}

\* The time steps of the driving loop: 0.5 s, and 0.2 s, which is no float32
\* value.  Of the configurations of two terms, those with a random interval
\* are driven with 0.5 s only.
StepDts(items) ==
    {Half} \cup (IF Len(items) = 1 \/ \A i \in 1 .. Len(items) : HasFixedInterval(items[i])
                 THEN {Fifth} ELSE {})

-----------------------------------------------------------------------------
(* list and tensor helpers *)

\* list[index] with a 0-based index.
Nth(list, index) == list[index + 1]

\* list with list[index] replaced.
SetNth(list, index, v) == [list EXCEPT ![index + 1] = v]

\* The ascending sequence of the elements of a set of integers.
RECURSIVE SortedSeq(_)
SortedSeq(S) ==
    IF S = {} THEN <<>>
    ELSE LET m == CHOOSE x \in S : \A y \in S : x <= y
         IN  <<m>> \o SortedSeq(S \ {m})

SeqRange(s) == {s[i] : i \in 1 .. Len(s)}

\* tensor.nonzero().flatten() of a boolean tensor: the positions that hold True.
NonZero(mask) == SortedSeq({p \in DOMAIN mask : mask[p]})

\* env_ids as passed around: None, or an explicit sequence of indices.
NoneIds == [none |-> TRUE, ids |-> <<>>]
Ids(seq) == [none |-> FALSE, ids |-> seq]

\* The environments an env_ids value stands for.
EnvSet(env_ids) == IF env_ids.none THEN Envs ELSE SeqRange(env_ids.ids)

-----------------------------------------------------------------------------
(* EventManager._prepare_terms *)

\* PrepareCheck without the test for None: the entry reaches the type check.
PrepareCheckNoneNotSkipped(term_cfg) ==
    IF ~IsEventTermCfg(term_cfg) THEN "TypeError"
    ELSE IF term_cfg.mode = "interval" /\ term_cfg.interval_range_s = NoRange THEN "ValueError"
    ELSE IF term_cfg.mode = "reset" /\ term_cfg.min_step_count_between_reset < 0 THEN "ValueError"
    ELSE "take"

\* PrepareCheck without the test for a negative threshold.
PrepareCheckNegativeAccepted(term_cfg) ==
    IF IsNone(term_cfg) THEN "skip"
    ELSE IF ~IsEventTermCfg(term_cfg) THEN "TypeError"
    ELSE IF term_cfg.mode = "interval" /\ term_cfg.interval_range_s = NoRange THEN "ValueError"
    ELSE "take"

\* What _prepare_terms does with one configuration entry before it touches
\* the buckets: skip it (None), reject it, or take it.
PrepareCheck(term_cfg) ==
    IF IsNone(term_cfg) THEN "skip"
    ELSE IF ~IsEventTermCfg(term_cfg) THEN "TypeError"
    ELSE IF term_cfg.mode = "interval" /\ term_cfg.interval_range_s = NoRange THEN "ValueError"
    ELSE IF term_cfg.mode = "reset" /\ term_cfg.min_step_count_between_reset < 0 THEN "ValueError"
    ELSE "take"

\* The result of the loop over the entries from position i on: the error of
\* the first entry that is rejected, "done" if there is none.
RECURSIVE PrepareOutcome(_, _)
PrepareOutcome(items, i) ==
    IF i > Len(items) THEN "done"
    ELSE IF PrepareCheck(items[i]) \in {"skip", "take"} THEN PrepareOutcome(items, i + 1)
    ELSE PrepareCheck(items[i])

\* _resolve_common_term_cfg: a term given as a class is instantiated, and the
\* descriptor's func then holds the instance.
ResolveCommonTermCfg(term_cfg) ==
    IF term_cfg.func.kind = "class"
    THEN [term_cfg EXCEPT !.func = InstanceOf(term_cfg.func.id)]
    ELSE term_cfg

ModesOf(items) == {items[i].mode : i \in {j \in 1 .. Len(items) : IsEventTermCfg(items[j])}}

\* The positions (1-based, in declaration order) of the terms of one mode.
RECURSIVE PositionsOf(_, _, _)
PositionsOf(items, mode, i) ==
    IF i > Len(items) THEN <<>>
    ELSE (IF IsEventTermCfg(items[i]) /\ items[i].mode = mode THEN <<i>> ELSE <<>>)
            \o PositionsOf(items, mode, i + 1)

PrepareTermNames(items) ==
    [m \in ModesOf(items) |->
        LET pos == PositionsOf(items, m, 1)
        IN  [k \in 1 .. Len(pos) |-> TermName(pos[k] - 1)]]

PrepareTermCfgs(items) ==
    [m \in ModesOf(items) |->
        LET pos == PositionsOf(items, m, 1)
        IN  [k \in 1 .. Len(pos) |-> ResolveCommonTermCfg(items[pos[k]])]]

\* isinstance(term_cfg.func, ManagerTermBase)
IsClassTerm(term_cfg) == term_cfg.func.kind = "instance"

PrepareClassTermCfgs(items) ==
    [m \in ModesOf(items) |-> SelectSeq(PrepareTermCfgs(items)[m], IsClassTerm)]

\* The possible initial time-left tensors of one interval term: one entry if
\* the timing is global, one per environment otherwise.
InitialTimeLeft(term, draws) ==
    IF term.is_global_time
    THEN SampledTensors({0}, term.interval_range_s, draws)
    ELSE SampledTensors(Envs, term.interval_range_s, draws)

\* The possible lists of time-left tensors for a list of interval terms.
RECURSIVE PrepareTimeLeft(_, _, _)
PrepareTimeLeft(terms, k, draws) ==
    IF k > Len(terms) THEN {<<>>}
    ELSE {<<t>> \o rest : t \in InitialTimeLeft(terms[k], draws),
                          rest \in PrepareTimeLeft(terms, k + 1, draws)}

\* torch.zeros(num_envs, dtype=int32) for each reset term.
PrepareLastTriggered(terms) == [k \in 1 .. Len(terms) |-> [e \in Envs |-> 0]]

TermsOfMode(items, mode) ==
    IF mode \in ModesOf(items) THEN PrepareTermCfgs(items)[mode] ELSE <<>>

\* A counter of zero for every entry of every tensor of a list.
ZeroLike(list) == [k \in 1 .. Len(list) |-> [p \in DOMAIN list[k] |-> 0]]

-----------------------------------------------------------------------------
(* EventManager.apply *)

\* One invocation term_cfg.func(self._env, env_ids, **term_cfg.params).
Call(index, env_ids) == [index |-> index, env_ids |-> env_ids]

\* ApplyCheck without the check of the step count for "reset".
ApplyCheckNoStepCount(names, mode, dt_given, g_given) ==
    IF mode \notin DOMAIN names THEN "skipped"
    ELSE IF mode = "interval" /\ ~dt_given THEN "ValueError"
    ELSE "done"

\* ApplyCheck with the argument checks made before the check of the mode.
ApplyCheckArgumentsFirst(names, mode, dt_given, g_given) ==
    IF mode = "interval" /\ ~dt_given THEN "ValueError"
    ELSE IF mode = "reset" /\ ~g_given THEN "ValueError"
    ELSE IF mode \notin DOMAIN names THEN "skipped"
    ELSE "done"

\* The checks at the head of apply: an undefined mode is skipped with a
\* warning, a missing dt or step count raises ValueError.
ApplyCheck(names, mode, dt_given, g_given) ==
    IF mode \notin DOMAIN names THEN "skipped"
    ELSE IF mode = "interval" /\ ~dt_given THEN "ValueError"
    ELSE IF mode = "reset" /\ ~g_given THEN "ValueError"
    ELSE "done"

\* time_left -= dt, on a float32 tensor.
DecrementTimeLeft(time_left, dt) ==
    [p \in DOMAIN time_left |-> F32Sub(time_left[p], dt)]

\* time_left <= 0.0
Elapsed(t) == t <= 0

\* GateOpen one step early.
GateOpenOneEarly(steps_since_reset, min_step_count) == steps_since_reset + 1 >= min_step_count

\* steps_since_reset >= min_step_count
GateOpen(steps_since_reset, min_step_count) == steps_since_reset >= min_step_count

\* The loop body for an interval term with is_global_time.  acc is the state
\* the loop carries: the buffers, env_ids and the invocations made so far.
IntervalGlobalStep(acc, index, term, dt, draws) ==
    LET time_left == DecrementTimeLeft(Nth(acc.time_left, index), dt)
        since     == [p \in DOMAIN time_left |-> Nth(acc.since, index)[p] + 1]
    IN  IF Elapsed(time_left[0])
        THEN {[acc EXCEPT !.time_left = SetNth(@, index, sampled_interval),
                          !.since = SetNth(@, index, [p \in {0} |-> 0]),
                          !.calls = Append(@, Call(index, acc.env_ids))]
                : sampled_interval \in SampledTensors({0}, term.interval_range_s, draws)}
        ELSE {[acc EXCEPT !.time_left = SetNth(@, index, time_left),
                          !.since = SetNth(@, index, since)]}

\* The loop body for an interval term with per-environment timing.
IntervalPerEnvStep(acc, index, term, dt, draws) ==
    LET time_left == DecrementTimeLeft(Nth(acc.time_left, index), dt)
        since     == [p \in DOMAIN time_left |-> Nth(acc.since, index)[p] + 1]
        env_ids   == NonZero([p \in DOMAIN time_left |-> Elapsed(time_left[p])])
        hit       == SeqRange(env_ids)
    IN  IF Len(env_ids) > 0
        THEN {[acc EXCEPT !.time_left = SetNth(@, index,
                                [p \in DOMAIN time_left |->
                                    IF p \in hit THEN sampled_time[p] ELSE time_left[p]]),
                          !.since = SetNth(@, index,
                                [p \in DOMAIN time_left |-> IF p \in hit THEN 0 ELSE since[p]]),
                          !.env_ids = Ids(env_ids),
                          !.calls = Append(@, Call(index, Ids(env_ids)))]
                : sampled_time \in SampledTensors(hit, term.interval_range_s, draws)}
        ELSE {[acc EXCEPT !.time_left = SetNth(@, index, time_left),
                          !.since = SetNth(@, index, since),
                          !.env_ids = Ids(env_ids)]}

\* The loop body for a reset term.
ResetStep(acc, index, term, g) ==
    LET min_step_count  == term.min_step_count_between_reset
        last_reset_step == Nth(acc.last_step, index)
    IN  IF min_step_count = 0
        THEN {[acc EXCEPT !.last_step = SetNth(@, index, [e \in DOMAIN last_reset_step |-> g]),
                          !.calls = Append(@, Call(index, acc.env_ids))]}
        ELSE LET \* env_ids = slice(None) selects every entry, in order
                 sel == IF acc.env_ids.none THEN SortedSeq(DOMAIN last_reset_step)
                        ELSE acc.env_ids.ids
                 steps_since_reset == [e \in DOMAIN last_reset_step |-> g - last_reset_step[e]]
                 \* steps_since_reset[env_ids] >= min_step_count: one entry per position of env_ids
                 mask == [p \in 0 .. (Len(sel) - 1) |->
                             GateOpen(steps_since_reset[sel[p + 1]], min_step_count)]
                 env_ids == NonZero(mask)
                 hit == SeqRange(env_ids)
             IN  IF Len(env_ids) > 0
                 THEN {[acc EXCEPT !.last_step = SetNth(@, index,
                                        [e \in DOMAIN last_reset_step |->
                                            IF e \in hit THEN g ELSE last_reset_step[e]]),
                                   !.env_ids = Ids(env_ids),
                                   !.calls = Append(@, Call(index, Ids(env_ids)))]}
                 ELSE {[acc EXCEPT !.env_ids = Ids(env_ids)]}

\* The loop body for a term of any other mode.
OtherStep(acc, index) == {[acc EXCEPT !.calls = Append(@, Call(index, acc.env_ids))]}

\* TermStep with the reset gate keyed on the threshold instead of the mode: a
\* term of another mode with a non-zero threshold is not invoked.
TermStepGateByThreshold(mode, term, index, acc, dt, g, draws) ==
    IF mode = "interval"
    THEN IF term.is_global_time
         THEN IntervalGlobalStep(acc, index, term, dt, draws)
         ELSE IntervalPerEnvStep(acc, index, term, dt, draws)
    ELSE IF mode = "reset"
    THEN ResetStep(acc, index, term, g)
    ELSE IF term.min_step_count_between_reset # 0
    THEN {acc}
    ELSE OtherStep(acc, index)

\* One iteration of "for index, term_cfg in enumerate(self._mode_term_cfgs[mode])".
TermStep(mode, term, index, acc, dt, g, draws) ==
    IF mode = "interval"
    THEN IF term.is_global_time
         THEN IntervalGlobalStep(acc, index, term, dt, draws)
         ELSE IntervalPerEnvStep(acc, index, term, dt, draws)
    ELSE IF mode = "reset"
    THEN ResetStep(acc, index, term, g)
    ELSE OtherStep(acc, index)

\* ApplyTerms walking the list from its end.
RECURSIVE ApplyTermsReversed(_, _, _, _, _, _, _)
ApplyTermsReversed(mode, terms, index, acc, dt, g, draws) ==
    IF index >= Len(terms) THEN {acc}
    ELSE LET from_end == Len(terms) - 1 - index
         IN  UNION {ApplyTermsReversed(mode, terms, index + 1, a, dt, g, draws)
                        : a \in TermStep(mode, Nth(terms, from_end), from_end, acc, dt, g, draws)}

\* The loop over the terms of the mode, from position index on: the states it
\* can end in (one per choice of the random samples).
RECURSIVE ApplyTerms(_, _, _, _, _, _, _)
ApplyTerms(mode, terms, index, acc, dt, g, draws) ==
    IF index >= Len(terms) THEN {acc}
    ELSE UNION {ApplyTerms(mode, terms, index + 1, a, dt, g, draws)
                    : a \in TermStep(mode, Nth(terms, index), index, acc, dt, g, draws)}

\* No call is in progress: the driving loop is between two calls.
Idle == [op |-> "idle", mode |-> "", env_ids |-> NoneIds,
         dt_given |-> FALSE, g_given |-> FALSE, g |-> 0,
         outcome |-> "", calls |-> <<>>,
         pre_time_left |-> <<>>, pre_last_step |-> <<>>, pre_since |-> <<>>]

\* Apply with the checks of dt and of the step count made after the loop over
\* the terms.
ApplyChecksAfterLoop(mode, env_ids, dt_given, g_given, g, draws) ==
    LET outcome == ApplyCheck(mode_term_names, mode, dt_given, g_given)
        acc0 == [time_left |-> interval_term_time_left,
                 last_step |-> reset_term_last_triggered_step_id,
                 since     |-> calls_since_fire,
                 env_ids   |-> env_ids,
                 calls     |-> <<>>]
        ends == IF outcome # "skipped"
                THEN ApplyTerms(mode, mode_term_cfgs[mode], 0, acc0, F32OfFloat(step_dt), g, draws)
                ELSE {acc0}
    IN  \E acc \in ends :
            /\ interval_term_time_left' = acc.time_left
            /\ reset_term_last_triggered_step_id' = acc.last_step
            /\ calls_since_fire' = acc.since
            /\ last' = [op |-> "apply", mode |-> mode, env_ids |-> env_ids,
                        dt_given |-> dt_given, g_given |-> g_given, g |-> g,
                        outcome |-> outcome, calls |-> acc.calls,
                        pre_time_left |-> interval_term_time_left,
                        pre_last_step |-> reset_term_last_triggered_step_id,
                        pre_since |-> calls_since_fire]
            /\ UNCHANGED <<cfg, step_dt, mode_term_names, mode_term_cfgs, mode_class_term_cfgs>>
            /\ UNCHANGED <<obs_vars, env_vars>>

\* apply(mode, env_ids, dt, global_env_step_count), torch.rand returning values
\* of draws.
Apply(mode, env_ids, dt_given, g_given, g, draws) ==
    LET outcome == ApplyCheck(mode_term_names, mode, dt_given, g_given)
        acc0 == [time_left |-> interval_term_time_left,
                 last_step |-> reset_term_last_triggered_step_id,
                 since     |-> calls_since_fire,
                 env_ids   |-> env_ids,
                 calls     |-> <<>>]
        ends == IF outcome = "done"
                THEN ApplyTerms(mode, mode_term_cfgs[mode], 0, acc0, F32OfFloat(step_dt), g, draws)
                ELSE {acc0}
    IN  \E acc \in ends :
            /\ interval_term_time_left' = acc.time_left
            /\ reset_term_last_triggered_step_id' = acc.last_step
            /\ calls_since_fire' = acc.since
            /\ last' = [op |-> "apply", mode |-> mode, env_ids |-> env_ids,
                        dt_given |-> dt_given, g_given |-> g_given, g |-> g,
                        outcome |-> outcome, calls |-> acc.calls,
                        pre_time_left |-> interval_term_time_left,
                        pre_last_step |-> reset_term_last_triggered_step_id,
                        pre_since |-> calls_since_fire]
            /\ UNCHANGED <<cfg, step_dt, mode_term_names, mode_term_cfgs, mode_class_term_cfgs>>
            /\ UNCHANGED <<obs_vars, env_vars>>

-----------------------------------------------------------------------------
(* the driving loop *)

\* The env_ids a caller passes: None, or a non-empty ascending list of indices.
EnvIdArgs == {NoneIds} \cup {Ids(SortedSeq(S)) : S \in (SUBSET Envs) \ {{}}}

\* No environment is converted: the managers are driven on their own.
NoEnvironment == self_env = <<>>

\* There is no ObservationManager.
NoObservationManager ==
    /\ obs_cfg = <<>>
    /\ group_obs_term_cfgs = <<>>
    /\ time_passed = <<>>
    /\ computes_total = 0
    /\ computes_since_reset = <<>>

ApplyInterval ==
    /\ last.op = "idle"
    /\ \E env_ids \in EnvIdArgs, dt_given \in BOOLEAN :
            Apply("interval", env_ids, dt_given, FALSE, 0, RandDraws)

ApplyReset ==
    /\ last.op = "idle"
    /\ \E env_ids \in EnvIdArgs, g_given \in BOOLEAN, g \in 0 .. MaxStep :
            /\ (~g_given => g = 0)
            /\ Apply("reset", env_ids, FALSE, g_given, g, RandDraws)

ApplyOther ==
    /\ last.op = "idle"
    /\ \E mode \in Modes \ {"interval", "reset"}, env_ids \in EnvIdArgs :
            Apply(mode, env_ids, FALSE, FALSE, 0, RandDraws)

Init ==
    \E items \in EventCfgs :
        /\ cfg = items
        /\ step_dt \in StepDts(items)
        /\ mode_term_names = PrepareTermNames(items)
        /\ mode_term_cfgs = PrepareTermCfgs(items)
        /\ mode_class_term_cfgs = PrepareClassTermCfgs(items)
        /\ interval_term_time_left \in PrepareTimeLeft(TermsOfMode(items, "interval"), 1, RandDraws)
        /\ reset_term_last_triggered_step_id = PrepareLastTriggered(TermsOfMode(items, "reset"))
        /\ calls_since_fire = ZeroLike(interval_term_time_left)
        /\ NoObservationManager
        /\ NoEnvironment
        /\ last = Idle

\* The call returns to the driving loop.
Return ==
    /\ last.op \notin {"idle", "construct"}
    /\ last' = Idle
    /\ UNCHANGED <<event_vars, obs_vars, env_vars>>

Next == ApplyInterval \/ ApplyReset \/ ApplyOther \/ Return

Spec == Init /\ [][Next]_vars

-----------------------------------------------------------------------------
(* construction from any configuration, and EventManager.reset *)

\* A descriptor whose func is the class c.
WithClass(term_cfg, c) == [term_cfg EXCEPT !.func = ClassRef(c)]

\* Configuration entries: None, a value that is no descriptor, descriptors
\* that _prepare_terms rejects, and function and class terms it takes.
LifeEntries ==
    {None,
     NotATermCfg,
     TermCfg("interval", 0, NoRange, FALSE),
     TermCfg("reset", -1, NoRange, FALSE),
     WithClass(TermCfg("reset", 0, NoRange, FALSE), 1),
     WithClass(TermCfg("interval", 0, <<Half, One>>, TRUE), 2),
     WithClass(TermCfg("custom", 0, NoRange, FALSE), 3),
     TermCfg("custom", 0, NoRange, FALSE)}

\* Largest number of entries of such a configuration.
MaxEntries == 3

RECURSIVE SeqsUpTo(_, _)
SeqsUpTo(S, n) ==
    IF n = 0 THEN {<<>>}
    ELSE LET shorter == SeqsUpTo(S, n - 1)
         IN  shorter \cup {Append(q, x) : q \in {r \in shorter : Len(r) = n - 1}, x \in S}

\* Configurations of up to MaxEntries entries; only None is repeated, so that
\* every class term has an instance of its own.
LifeCfgs ==
    {items \in SeqsUpTo(LifeEntries, MaxEntries) :
        /\ Len(items) > 0
        /\ \A i \in 1 .. Len(items), j \in 1 .. Len(items) :
              (i < j /\ items[i] = items[j]) => IsNone(items[i])}

\* The modes in the order in which _prepare_terms adds them to its
\* dictionaries (the order in which Python iterates over them).
RECURSIVE ModeOrder(_, _, _)
ModeOrder(items, i, seen) ==
    IF i > Len(items) THEN seen
    ELSE IF IsEventTermCfg(items[i]) /\ items[i].mode \notin SeqRange(seen)
    THEN ModeOrder(items, i + 1, Append(seen, items[i].mode))
    ELSE ModeOrder(items, i + 1, seen)

\* The constructor: _prepare_terms either raises, and there is no manager, or
\* leaves the buckets and buffers it built, torch.rand returning values of
\* draws.
Construct(items, draws) ==
        /\ NoObservationManager
        /\ NoEnvironment
        /\ cfg = items
        /\ step_dt = Half
        /\ IF PrepareOutcome(items, 1) = "done"
           THEN /\ mode_term_names = PrepareTermNames(items)
                /\ mode_term_cfgs = PrepareTermCfgs(items)
                /\ mode_class_term_cfgs = PrepareClassTermCfgs(items)
                /\ interval_term_time_left \in PrepareTimeLeft(TermsOfMode(items, "interval"), 1, draws)
                /\ reset_term_last_triggered_step_id = PrepareLastTriggered(TermsOfMode(items, "reset"))
                /\ calls_since_fire = ZeroLike(interval_term_time_left)
                /\ last = Idle
           ELSE /\ mode_term_names = <<>>
                /\ mode_term_cfgs = <<>>
                /\ mode_class_term_cfgs = <<>>
                /\ interval_term_time_left = <<>>
                /\ reset_term_last_triggered_step_id = <<>>
                /\ calls_since_fire = <<>>
                /\ last = [op |-> "construct", outcome |-> PrepareOutcome(items, 1)]

LifeInit == \E items \in LifeCfgs : Construct(items, RandDraws)

\* ResetClassTerms calling reset() without passing env_ids on.
RECURSIVE ResetClassTermsAllEnvs(_, _, _, _)
ResetClassTermsAllEnvs(class_term_cfgs, modes, k, env_ids) ==
    IF k > Len(modes) THEN <<>>
    ELSE LET mode_cfg == class_term_cfgs[modes[k]]
         IN  [n \in 1 .. Len(mode_cfg) |-> [instance |-> mode_cfg[n].func, env_ids |-> NoneIds]]
                \o ResetClassTermsAllEnvs(class_term_cfgs, modes, k + 1, env_ids)

\* term_cfg.func.reset(env_ids=env_ids) for every descriptor of every list of
\* class terms, the modes taken in dictionary order.
RECURSIVE ResetClassTerms(_, _, _, _)
ResetClassTerms(class_term_cfgs, modes, k, env_ids) ==
    IF k > Len(modes) THEN <<>>
    ELSE LET mode_cfg == class_term_cfgs[modes[k]]
         IN  [n \in 1 .. Len(mode_cfg) |-> [instance |-> mode_cfg[n].func, env_ids |-> env_ids]]
                \o ResetClassTerms(class_term_cfgs, modes, k + 1, env_ids)

\* reset(env_ids)
Reset(env_ids) ==
    /\ last' = [op |-> "reset", env_ids |-> env_ids, outcome |-> "done",
                calls |-> <<>>,
                resets |-> ResetClassTerms(mode_class_term_cfgs, ModeOrder(cfg, 1, <<>>), 1, env_ids),
                result |-> <<>>]
    /\ UNCHANGED <<event_vars, obs_vars, env_vars>>

CallReset ==
    /\ last.op = "idle"
    /\ \E env_ids \in EnvIdArgs : Reset(env_ids)

NextLife == ApplyInterval \/ ApplyReset \/ ApplyOther \/ CallReset \/ Return

SpecLife == LifeInit /\ [][NextLife]_vars

-----------------------------------------------------------------------------
(* EventManager.set_term_cfg and get_term_cfg *)

\* The first mode, in dictionary order from position k on, whose list of
\* names holds term_name; "" if there is none.
RECURSIVE FindMode(_, _, _, _)
FindMode(names, modes, k, term_name) ==
    IF k > Len(modes) THEN ""
    ELSE IF term_name \in SeqRange(names[modes[k]]) THEN modes[k]
    ELSE FindMode(names, modes, k + 1, term_name)

\* IndexOf taking the first term of the list.
IndexOfFirst(terms, term_name) == 0

\* terms.index(term_name), as a 0-based index.
IndexOf(terms, term_name) ==
    (CHOOSE k \in 1 .. Len(terms) :
        terms[k] = term_name /\ \A j \in 1 .. (k - 1) : terms[j] # term_name) - 1

\* SetTermCfg moving the name of the term out of its bucket when the new
\* descriptor names another mode.
SetTermCfgRebucket(term_name, new_cfg) ==
    LET mode == FindMode(mode_term_names, ModeOrder(cfg, 1, <<>>), 1, term_name)
        term_found == mode # ""
        moved == term_found /\ IsEventTermCfg(new_cfg) /\ new_cfg.mode # mode
    IN  /\ mode_term_cfgs' =
                IF term_found
                THEN [mode_term_cfgs EXCEPT
                        ![mode] = SetNth(@, IndexOf(mode_term_names[mode], term_name), new_cfg)]
                ELSE mode_term_cfgs
        /\ mode_term_names' =
                IF moved
                THEN [mode_term_names EXCEPT
                        ![mode] = SelectSeq(@, LAMBDA n : n # term_name)]
                ELSE mode_term_names
        /\ last' = [op |-> "set_term_cfg", term_name |-> term_name, cfg |-> new_cfg,
                    outcome |-> IF term_found THEN "done" ELSE "ValueError",
                    calls |-> <<>>,
                    pre_term_names |-> mode_term_names,
                    pre_term_cfgs |-> mode_term_cfgs,
                    pre_class_term_cfgs |-> mode_class_term_cfgs,
                    pre_time_left |-> interval_term_time_left,
                    pre_last_step |-> reset_term_last_triggered_step_id]
        /\ UNCHANGED <<cfg, step_dt, mode_class_term_cfgs,
                       interval_term_time_left, reset_term_last_triggered_step_id,
                       calls_since_fire>>
        /\ UNCHANGED <<obs_vars, env_vars>>

\* set_term_cfg(term_name, cfg)
SetTermCfg(term_name, new_cfg) ==
    LET mode == FindMode(mode_term_names, ModeOrder(cfg, 1, <<>>), 1, term_name)
        term_found == mode # ""
    IN  /\ mode_term_cfgs' =
                IF term_found
                THEN [mode_term_cfgs EXCEPT
                        ![mode] = SetNth(@, IndexOf(mode_term_names[mode], term_name), new_cfg)]
                ELSE mode_term_cfgs
        /\ last' = [op |-> "set_term_cfg", term_name |-> term_name, cfg |-> new_cfg,
                    outcome |-> IF term_found THEN "done" ELSE "ValueError",
                    calls |-> <<>>,
                    pre_term_names |-> mode_term_names,
                    pre_term_cfgs |-> mode_term_cfgs,
                    pre_class_term_cfgs |-> mode_class_term_cfgs,
                    pre_time_left |-> interval_term_time_left,
                    pre_last_step |-> reset_term_last_triggered_step_id]
        /\ UNCHANGED <<cfg, step_dt, mode_term_names, mode_class_term_cfgs,
                       interval_term_time_left, reset_term_last_triggered_step_id,
                       calls_since_fire>>
        /\ UNCHANGED <<obs_vars, env_vars>>

\* GetTermCfgResult returning None for a name that is not found.
GetTermCfgResultNoneIfMissing(term_name) ==
    LET mode == FindMode(mode_term_names, ModeOrder(cfg, 1, <<>>), 1, term_name)
    IN  IF mode # ""
        THEN [outcome |-> "done",
              value |-> Nth(mode_term_cfgs[mode], IndexOf(mode_term_names[mode], term_name))]
        ELSE [outcome |-> "done", value |-> None]

\* What get_term_cfg(term_name) returns or raises, in the current state.
GetTermCfgResult(term_name) ==
    LET mode == FindMode(mode_term_names, ModeOrder(cfg, 1, <<>>), 1, term_name)
    IN  IF mode # ""
        THEN [outcome |-> "done",
              value |-> Nth(mode_term_cfgs[mode], IndexOf(mode_term_names[mode], term_name))]
        ELSE [outcome |-> "ValueError", value |-> None]

\* get_term_cfg(term_name)
GetTermCfg(term_name) ==
    /\ last' = [op |-> "get_term_cfg", term_name |-> term_name,
                outcome |-> GetTermCfgResult(term_name).outcome,
                calls |-> <<>>,
                result |-> GetTermCfgResult(term_name).value]
    /\ UNCHANGED <<event_vars, obs_vars, env_vars>>

\* Configuration entries of the managers whose terms are edited.
EditEntries ==
    {None,
     WithClass(TermCfg("reset", 0, NoRange, FALSE), 1),
     TermCfg("reset", 1, NoRange, FALSE),
     TermCfg("interval", 0, <<Half, Half>>, TRUE)}

EditCfgs ==
    {items \in SeqsUpTo(EditEntries, MaxEntries) :
        /\ Len(items) > 0
        /\ \A i \in 1 .. Len(items), j \in 1 .. Len(items) :
              (i < j /\ items[i] = items[j]) => IsNone(items[i])}

\* A descriptor whose func is an instance of a term class, as the descriptors
\* of a constructed manager are.
WithInstance(term_cfg, c) == [term_cfg EXCEPT !.func = InstanceOf(c)]

\* The values passed to set_term_cfg: descriptors that _prepare_terms would
\* take (one of them a stateful term), descriptors it would reject, and a
\* value that is no descriptor.
NewTermCfgs ==
    {TermCfg("reset", 2, NoRange, FALSE),
     WithInstance(TermCfg("reset", 0, NoRange, FALSE), 4),
     TermCfg("interval", 0, NoRange, FALSE),
     TermCfg("reset", -1, NoRange, FALSE),
     NotATermCfg}

\* The names passed to set_term_cfg and get_term_cfg: those of the
\* configuration's entries and one more.
TermNameArgs == {TermName(i) : i \in 0 .. MaxEntries}

EditInit == \E items \in EditCfgs : Construct(items, RandDraws)

CallSetTermCfg ==
    /\ last.op = "idle"
    /\ \E term_name \in TermNameArgs, new_cfg \in NewTermCfgs : SetTermCfg(term_name, new_cfg)

CallGetTermCfg ==
    /\ last.op = "idle"
    /\ \E term_name \in TermNameArgs : GetTermCfg(term_name)

NextEdit == CallSetTermCfg \/ CallGetTermCfg \/ CallReset \/ Return

SpecEdit == EditInit /\ [][NextEdit]_vars

-----------------------------------------------------------------------------
(* ObservationManager with the terms of test_observation_manager.py *)

Ten == <<10, 1>>

\* The functions and the class of the test that observation terms refer to.
grilled_chicken == [kind |-> "function", id |-> 10]
complex_function_class == ClassRef(11)

\* An ObservationTermCfg: func, scale and the params entry "interval".
ObsTermCfg(func, scale, interval) ==
    [type |-> "ObservationTermCfg", func |-> func, scale |-> scale, interval |-> interval]

\* Entries of the group "policy" of a configuration.
ObsEntries ==
    {None,
     ObsTermCfg(grilled_chicken, Ten, NoRange),
     ObsTermCfg(complex_function_class, Half, Half),
     ObsTermCfg(complex_function_class, One, One)}

ObsCfgs ==
    {<<a>> : a \in ObsEntries \ {None}} \cup
    {p \in ObsEntries \X ObsEntries : p[1] # None \/ p[2] # None}

\* Largest number of compute() calls made on one manager.
MaxComputes == 3

\* The active terms of a group: the entries that are not None, in declaration
\* order, each resolved.
RECURSIVE PrepareGroupTerms(_, _)
PrepareGroupTerms(items, i) ==
    IF i > Len(items) THEN <<>>
    ELSE (IF IsNone(items[i]) THEN <<>> ELSE <<ResolveCommonTermCfg(items[i])>>)
            \o PrepareGroupTerms(items, i + 1)

\* The positions of the class terms in a list of terms.
ClassTermIndices(terms) == {k \in 1 .. Len(terms) : IsClassTerm(terms[k])}

\* complex_function_class.__init__: self._time_passed = torch.zeros(num_envs)
ClassInit == [e \in Envs |-> 0]

\* ClassReset zeroing every entry, whatever env_ids is.
ClassResetAll(tensor, env_ids) == [e \in DOMAIN tensor |-> 0]

\* complex_function_class.reset
ClassReset(tensor, env_ids) ==
    [e \in DOMAIN tensor |-> IF e \in EnvSet(env_ids) THEN 0 ELSE tensor[e]]

\* ClassCall on a tensor that does not keep what it held: the value a newly
\* created instance returns.
ClassCallFromZero(tensor, interval) ==
    [e \in DOMAIN tensor |-> F32Add(0, F32OfFloat(interval))]

\* complex_function_class.__call__: self._time_passed += interval
ClassCall(tensor, interval) ==
    [e \in DOMAIN tensor |-> F32Add(tensor[e], F32OfFloat(interval))]

\* grilled_chicken: torch.ones(env.num_envs, 4), as the row of one environment.
GrilledChickenRow == [c \in 1 .. 4 |-> F32OfFloat(One)]

\* The row of environment e that one term contributes to compute(): the
\* term's output times its scale.  tensors holds the class terms' state
\* after their invocation.
TermRow(terms, tensors, k, e) ==
    LET raw == IF IsClassTerm(terms[k]) THEN <<tensors[k][e]>> ELSE GrilledChickenRow
    IN  [c \in 1 .. Len(raw) |-> F32Scale(raw[c], terms[k].scale)]

\* The rows of the terms from position k on, concatenated.
RECURSIVE GroupRow(_, _, _, _)
GroupRow(terms, tensors, k, e) ==
    IF k > Len(terms) THEN <<>>
    ELSE TermRow(terms, tensors, k, e) \o GroupRow(terms, tensors, k + 1, e)

\* The constructor of the ObservationManager: the class terms are
\* instantiated, once each.
ObsInit ==
    /\ \E items \in ObsCfgs :
          /\ obs_cfg = items
          /\ group_obs_term_cfgs = [policy |-> PrepareGroupTerms(items, 1)]
          /\ time_passed = [k \in ClassTermIndices(PrepareGroupTerms(items, 1)) |-> ClassInit]
    /\ computes_total = 0
    /\ computes_since_reset = [e \in Envs |-> 0]
    /\ last = Idle
    /\ NoEnvironment
    /\ cfg = <<>>
    /\ step_dt = Half
    /\ mode_term_names = <<>>
    /\ mode_term_cfgs = <<>>
    /\ mode_class_term_cfgs = <<>>
    /\ interval_term_time_left = <<>>
    /\ reset_term_last_triggered_step_id = <<>>
    /\ calls_since_fire = <<>>

\* ObservationManager.compute(): every term of the group is invoked in
\* order, its output scaled and the outputs concatenated.
ObsCompute ==
    LET terms   == group_obs_term_cfgs["policy"]
        tensors == [k \in DOMAIN time_passed |-> ClassCall(time_passed[k], terms[k].interval)]
    IN  /\ time_passed' = tensors
        /\ computes_total' = computes_total + 1
        /\ computes_since_reset' = [e \in Envs |-> computes_since_reset[e] + 1]
        /\ last' = [op |-> "compute", outcome |-> "done",
                    result |-> [policy |-> [e \in Envs |-> GroupRow(terms, tensors, 1, e)]],
                    pre_time_passed |-> time_passed,
                    pre_term_cfgs |-> group_obs_term_cfgs]
        /\ UNCHANGED <<event_vars, env_vars, obs_cfg, group_obs_term_cfgs>>

\* ObservationManager.reset(env_ids): reset(env_ids) on every class term.
ObsReset(env_ids) ==
    /\ time_passed' = [k \in DOMAIN time_passed |-> ClassReset(time_passed[k], env_ids)]
    /\ computes_since_reset' =
            [e \in Envs |-> IF e \in EnvSet(env_ids) THEN 0 ELSE computes_since_reset[e]]
    /\ last' = [op |-> "reset", env_ids |-> env_ids, outcome |-> "done",
                pre_time_passed |-> time_passed]
    /\ UNCHANGED <<event_vars, env_vars, obs_cfg, group_obs_term_cfgs, computes_total>>

CallObsCompute ==
    /\ last.op = "idle"
    /\ computes_total < MaxComputes
    /\ ObsCompute

CallObsReset ==
    /\ last.op = "idle"
    /\ \E env_ids \in EnvIdArgs : ObsReset(env_ids)

NextObs == CallObsCompute \/ CallObsReset \/ Return

SpecObs == ObsInit /\ [][NextObs]_vars

-----------------------------------------------------------------------------
(* ObservationManager: groups of terms, preparation and compute *)

\* The other functions and the class without __call__ of the test.
grilled_chicken_with_bbq == [kind |-> "function", id |-> 12]
grilled_chicken_with_curry == [kind |-> "function", id |-> 13]
grilled_chicken_with_yoghurt == [kind |-> "function", id |-> 14]
grilled_chicken_with_yoghurt_and_bbq == [kind |-> "function", id |-> 15]
grilled_chicken_image == [kind |-> "function", id |-> 16]
non_callable_complex_function_class == ClassRef(17)

\* The class whose instance or definition a func field refers to, or the
\* function itself.
Callable(func) == IF func.kind = "function" THEN func ELSE ClassRef(func.id)

\* The class defines __call__.
HasCall(func) == Callable(func) # non_callable_complex_function_class

\* The parameters of a term's callable after the leading env: those without a
\* default value and those with one.
Signature(func) ==
    LET c == Callable(func)
    IN  IF c = grilled_chicken_with_bbq THEN [required |-> {"bbq"}, optional |-> {}]
        ELSE IF c = grilled_chicken_with_curry THEN [required |-> {"hot"}, optional |-> {}]
        ELSE IF c = grilled_chicken_with_yoghurt THEN [required |-> {"hot", "bland"}, optional |-> {}]
        ELSE IF c = grilled_chicken_with_yoghurt_and_bbq
        THEN [required |-> {"hot", "bland"}, optional |-> {"bbq"}]
        ELSE IF c = grilled_chicken_image THEN [required |-> {"bland"}, optional |-> {"channel"}]
        ELSE IF c = complex_function_class THEN [required |-> {"interval"}, optional |-> {}]
        ELSE [required |-> {}, optional |-> {}]

\* The default values of the parameters that have one.
Defaults(func) ==
    LET c == Callable(func)
    IN  IF c = grilled_chicken_with_yoghurt_and_bbq THEN [bbq |-> FALSE]
        ELSE IF c = grilled_chicken_image THEN [channel |-> 1]
        ELSE <<>>

\* An ObservationTermCfg with its params mapping.
ObsTerm(func, scale, params) ==
    [type |-> "ObservationTermCfg", func |-> func, scale |-> scale, params |-> params]

NoParams == <<>>

\* The arguments a term is called with: params over the defaults.
Arguments(term) ==
    [n \in DOMAIN term.params \cup DOMAIN Defaults(term.func) |->
        IF n \in DOMAIN term.params THEN term.params[n] ELSE Defaults(term.func)[n]]

\* The height and width of the images of grilled_chicken_image.
ImageHeight == 128
ImageWidth == 256

Zero == <<0, 1>>
Two == <<2, 1>>
ThreeHalves == <<3, 2>>

\* A Python bool used as a factor.
BoolFactor(b) == IF b THEN 1 ELSE 0

\* factor * torch.ones(...): the Python float factor, cast to float32.
TimesOnes(factor, width) == [c \in 1 .. width |-> F32OfFloat(factor)]

\* The product of a Python int and a Python float given as a fraction.
IntTimes(n, r) == <<n * r[1], r[2]>>

\* The tensor a function term returns, as the dimensions between the batch
\* dimension and the last one (lead) and the values along the last dimension
\* (cols); every function of the test fills its tensor with one value per
\* call, the same for every index of the other dimensions.
FunctionOutput(func, args) ==
    IF func = grilled_chicken THEN [lead |-> <<>>, cols |-> TimesOnes(One, 4)]
    ELSE IF func = grilled_chicken_with_bbq
    THEN [lead |-> <<>>, cols |-> TimesOnes(IntTimes(BoolFactor(args.bbq), One), 1)]
    ELSE IF func = grilled_chicken_with_curry
    THEN [lead |-> <<>>, cols |-> TimesOnes(IntTimes(BoolFactor(args.hot) * 2, One), 1)]
    ELSE IF func = grilled_chicken_with_yoghurt
    THEN [lead |-> <<>>, cols |-> TimesOnes(IntTimes(BoolFactor(args.hot), args.bland), 5)]
    ELSE IF func = grilled_chicken_with_yoghurt_and_bbq
    THEN [lead |-> <<>>,
          cols |-> TimesOnes(IntTimes(BoolFactor(args.hot) * BoolFactor(args.bbq), args.bland), 3)]
    ELSE [lead |-> <<ImageHeight, ImageWidth>>, cols |-> TimesOnes(args.bland, args.channel)]

\* An ObservationGroupCfg: its name in the manager's configuration, the flag
\* concatenate_terms and the term entries in declaration order.
GroupCfg(name, concatenate_terms, terms) ==
    [name |-> name, concatenate_terms |-> concatenate_terms, terms |-> terms]

\* ResolveCheck without the test that every key of params is a parameter.
ResolveCheckExtraAccepted(term_cfg) ==
    IF ~HasCall(term_cfg.func) THEN "NotImplementedError"
    ELSE IF ~(Signature(term_cfg.func).required \subseteq DOMAIN term_cfg.params)
    THEN "ValueError"
    ELSE "take"

\* ResolveCheck without the test that a class defines __call__.
ResolveCheckNoCallAccepted(term_cfg) ==
    IF ~(DOMAIN term_cfg.params \subseteq
                Signature(term_cfg.func).required \cup Signature(term_cfg.func).optional)
    THEN "ValueError"
    ELSE IF ~(Signature(term_cfg.func).required \subseteq DOMAIN term_cfg.params)
    THEN "ValueError"
    ELSE "take"

\* The Term Resolver on one descriptor: a class without __call__ is rejected,
\* and so is a params mapping with a key that is no parameter of the callable
\* or without a required parameter of it.
ResolveCheck(term_cfg) ==
    IF ~HasCall(term_cfg.func) THEN "NotImplementedError"
    ELSE IF ~(DOMAIN term_cfg.params \subseteq
                Signature(term_cfg.func).required \cup Signature(term_cfg.func).optional)
    THEN "ValueError"
    ELSE IF ~(Signature(term_cfg.func).required \subseteq DOMAIN term_cfg.params)
    THEN "ValueError"
    ELSE "take"

\* The result of resolving the entries of a group from position i on: the
\* error of the first entry that is rejected, "done" if there is none.  An
\* entry set to None is skipped.
RECURSIVE ResolveOutcome(_, _)
ResolveOutcome(items, i) ==
    IF i > Len(items) THEN "done"
    ELSE IF IsNone(items[i]) \/ ResolveCheck(items[i]) = "take" THEN ResolveOutcome(items, i + 1)
    ELSE ResolveCheck(items[i])

\* The names of the active terms of a group: those of the entries that are
\* not None, in declaration order.
RECURSIVE PrepareGroupTermNames(_, _)
PrepareGroupTermNames(items, i) ==
    IF i > Len(items) THEN <<>>
    ELSE (IF IsNone(items[i]) THEN <<>> ELSE <<TermName(i - 1)>>)
            \o PrepareGroupTermNames(items, i + 1)

\* The dimensions of a term's output after the batch dimension: the leading
\* ones and the last.  complex_function_class returns a tensor (N, 1).
TermDim(term) ==
    IF Callable(term.func) = complex_function_class THEN [lead |-> <<>>, width |-> 1]
    ELSE LET out == FunctionOutput(term.func, Arguments(term))
         IN  [lead |-> out.lead, width |-> Len(out.cols)]

\* ConcatCompatible accepting no term with more than two dimensions.
ConcatCompatibleVectorsOnly(terms) ==
    \A k \in 1 .. Len(terms) : TermDim(terms[k]).lead = <<>>

\* The outputs of the terms can be concatenated along the last dimension: they
\* agree on every other dimension.
ConcatCompatible(terms) ==
    \A k \in 1 .. Len(terms), l \in 1 .. Len(terms) :
        TermDim(terms[k]).lead = TermDim(terms[l]).lead

\* The result of preparing one group.
PrepareGroupOutcome(group_cfg) ==
    IF ResolveOutcome(group_cfg.terms, 1) # "done" THEN ResolveOutcome(group_cfg.terms, 1)
    ELSE IF group_cfg.concatenate_terms /\ ~ConcatCompatible(PrepareGroupTerms(group_cfg.terms, 1))
    THEN "RuntimeError"
    ELSE "done"

\* The result of preparing the groups from position i on.
RECURSIVE PrepareGroupsOutcome(_, _)
PrepareGroupsOutcome(groups, i) ==
    IF i > Len(groups) THEN "done"
    ELSE IF PrepareGroupOutcome(groups[i]) = "done" THEN PrepareGroupsOutcome(groups, i + 1)
    ELSE PrepareGroupOutcome(groups[i])

GroupNames(groups) == {groups[i].name : i \in 1 .. Len(groups)}

GroupOf(groups, name) == groups[CHOOSE i \in 1 .. Len(groups) : groups[i].name = name]

\* The term lists of the groups: those of the test (vector terms, a term set
\* to None, a vector term with an image term, two image terms, a class term, a
\* class without __call__, params that do not fit the function) and variations
\* of them.
GroupTermLists ==
    {<<ObsTerm(grilled_chicken, Ten, NoParams),
       ObsTerm(grilled_chicken_with_curry, Zero, [hot |-> TRUE])>>,
     <<ObsTerm(grilled_chicken, Ten, NoParams), None>>,
     <<ObsTerm(grilled_chicken, Two, NoParams),
       ObsTerm(grilled_chicken_image, ThreeHalves, [bland |-> Half])>>,
     <<ObsTerm(grilled_chicken_image, ThreeHalves, [bland |-> Half, channel |-> 1]),
       ObsTerm(grilled_chicken_image, Half, [bland |-> <<1, 10>>, channel |-> 3])>>,
     <<None, ObsTerm(grilled_chicken_image, ThreeHalves, [bland |-> Half])>>,
     <<ObsTerm(grilled_chicken, Ten, NoParams),
       ObsTerm(grilled_chicken_with_bbq, <<5, 1>>, [bbq |-> TRUE]),
       ObsTerm(grilled_chicken_with_yoghurt, One, [hot |-> TRUE, bland |-> Two])>>,
     <<ObsTerm(grilled_chicken_with_bbq, Half, [hot |-> FALSE])>>,
     <<ObsTerm(grilled_chicken, Ten, NoParams),
       ObsTerm(grilled_chicken_with_yoghurt, Two, [hot |-> FALSE])>>,
     <<ObsTerm(grilled_chicken, Ten, [bbq |-> TRUE])>>,
     <<ObsTerm(grilled_chicken, Ten, NoParams),
       ObsTerm(complex_function_class, Half, [interval |-> Half])>>,
     <<ObsTerm(grilled_chicken, Ten, NoParams),
       ObsTerm(non_callable_complex_function_class, Half, NoParams)>>,
     <<ObsTerm(grilled_chicken_with_yoghurt_and_bbq, One, [hot |-> TRUE, bland |-> Two]),
       ObsTerm(grilled_chicken_with_yoghurt_and_bbq, Two, [hot |-> TRUE, bland |-> Half, bbq |-> TRUE])>>}

\* Configurations of the manager: a group "policy", or "policy" and "critic".
GroupsCfgs ==
    {<<GroupCfg("policy", c, t)>> : c \in BOOLEAN, t \in GroupTermLists} \cup
    {<<GroupCfg("policy", c, t), GroupCfg("critic", d, u)>> :
        c \in BOOLEAN, t \in GroupTermLists, d \in BOOLEAN, u \in GroupTermLists}

\* There is no EventManager.
NoEventManager ==
    /\ cfg = <<>>
    /\ step_dt = Half
    /\ mode_term_names = <<>>
    /\ mode_term_cfgs = <<>>
    /\ mode_class_term_cfgs = <<>>
    /\ interval_term_time_left = <<>>
    /\ reset_term_last_triggered_step_id = <<>>
    /\ calls_since_fire = <<>>

\* The class terms of the groups: (group name, position in the group).
GroupClassTerms(term_cfgs) ==
    UNION {{<<n, k>> : k \in ClassTermIndices(term_cfgs[n])} : n \in DOMAIN term_cfgs}

\* The constructor of the ObservationManager: the groups are prepared in
\* order; either it raises, and there is no manager, or it leaves the lists
\* of active terms, the class terms instantiated.
ConstructGroups(groups) ==
    /\ NoEventManager
    /\ NoEnvironment
    /\ obs_cfg = groups
    /\ computes_total = 0
    /\ computes_since_reset = [e \in Envs |-> 0]
    /\ IF PrepareGroupsOutcome(groups, 1) = "done"
       THEN /\ group_obs_term_cfgs =
                    [n \in GroupNames(groups) |-> PrepareGroupTerms(GroupOf(groups, n).terms, 1)]
            /\ time_passed = [key \in GroupClassTerms(group_obs_term_cfgs) |-> ClassInit]
            /\ last = Idle
       ELSE /\ group_obs_term_cfgs = <<>>
            /\ time_passed = <<>>
            /\ last = [op |-> "construct", outcome |-> PrepareGroupsOutcome(groups, 1)]

GroupsInit == \E groups \in GroupsCfgs : ConstructGroups(groups)

\* obs * term_cfg.scale: every value of the term's output times the scale.
ScaledOutput(term, raw) ==
    [lead |-> raw.lead,
     rows |-> [e \in Envs |-> [c \in 1 .. Len(raw.rows[e]) |-> F32Scale(raw.rows[e][c], term.scale)]]]

\* The output of one term: that of its function, the same for every
\* environment, or the state of its instance after the invocation.
RawOutput(term, tensors, key) ==
    IF IsClassTerm(term)
    THEN [lead |-> <<>>, rows |-> [e \in Envs |-> <<tensors[key][e]>>]]
    ELSE LET out == FunctionOutput(term.func, Arguments(term))
         IN  [lead |-> out.lead, rows |-> [e \in Envs |-> out.cols]]

\* The scaled outputs of the terms of a group, in the order of the list.
GroupOutputs(name, terms, tensors) ==
    [k \in 1 .. Len(terms) |-> ScaledOutput(terms[k], RawOutput(terms[k], tensors, <<name, k>>))]

\* ConcatRows taking the outputs from the last to the first.
RECURSIVE ConcatRowsReversed(_, _, _)
ConcatRowsReversed(outs, k, e) ==
    IF k > Len(outs) THEN <<>>
    ELSE ConcatRowsReversed(outs, k + 1, e) \o outs[k].rows[e]

\* torch.cat(outputs, dim=-1), for environment e, from position k on.
RECURSIVE ConcatRows(_, _, _)
ConcatRows(outs, k, e) ==
    IF k > Len(outs) THEN <<>>
    ELSE outs[k].rows[e] \o ConcatRows(outs, k + 1, e)

\* What compute() returns for one group: one tensor if the group
\* concatenates its terms, else a mapping from term name to tensor.
GroupResult(group_cfg, terms, tensors) ==
    LET outs  == GroupOutputs(group_cfg.name, terms, tensors)
        names == PrepareGroupTermNames(group_cfg.terms, 1)
    IN  IF group_cfg.concatenate_terms
        THEN [lead |-> outs[1].lead, rows |-> [e \in Envs |-> ConcatRows(outs, 1, e)]]
        ELSE [n \in SeqRange(names) |-> outs[CHOOSE k \in 1 .. Len(names) : names[k] = n]]

\* ObservationManager.compute() on the groups: every term of every group is
\* invoked, in order.
GroupsCompute ==
    LET tensors == [key \in DOMAIN time_passed |->
                        ClassCall(time_passed[key],
                                  group_obs_term_cfgs[key[1]][key[2]].params.interval)]
    IN  /\ time_passed' = tensors
        /\ computes_total' = computes_total + 1
        /\ computes_since_reset' = [e \in Envs |-> computes_since_reset[e] + 1]
        /\ last' = [op |-> "compute", outcome |-> "done",
                    result |-> [n \in GroupNames(obs_cfg) |->
                                    GroupResult(GroupOf(obs_cfg, n), group_obs_term_cfgs[n], tensors)],
                    pre_time_passed |-> time_passed]
        /\ UNCHANGED <<event_vars, env_vars, obs_cfg, group_obs_term_cfgs>>

CallGroupsCompute ==
    /\ last.op = "idle"
    /\ computes_total < MaxComputes
    /\ GroupsCompute

NextGroups == CallGroupsCompute \/ Return

SpecGroups == GroupsInit /\ [][NextGroups]_vars

-----------------------------------------------------------------------------
(* envs/utils.py: a multi-agent environment wrapped as a single-agent one *)

AgentName(k) == <<"agent_0", "agent_1", "agent_2">>[k]

\* gym.spaces.flatdim of the agents' action spaces, in possible_agents order.
AgentActionDims == {<<1>>, <<2>>, <<1, 2>>, <<2, 1>>, <<2, 2>>, <<1, 1, 2>>}

\* The two conversions.
Wrappers == {"multi_agent_to_single_agent", "multi_agent_with_one_agent"}

\* The wrapped DirectMARLEnv as the wrapper reads it: possible_agents and the
\* flattened dimension of each agent's action space.
WrappedEnv(wrapper, dims) ==
    [wrapper |-> wrapper,
     possible_agents |-> [k \in 1 .. Len(dims) |-> AgentName(k)],
     action_dims |-> [a \in {AgentName(k) : k \in 1 .. Len(dims)} |->
                        dims[CHOOSE k \in 1 .. Len(dims) : AgentName(k) = a]]]

RECURSIVE SumSeq(_)
SumSeq(q) == IF q = <<>> THEN 0 ELSE q[1] + SumSeq(Tail(q))

\* The width of the flattened tuple of the agents' action spaces.
ActionWidth(env) ==
    SumSeq([k \in 1 .. Len(env.possible_agents) |-> env.action_dims[env.possible_agents[k]]])

\* SplitActions without "index += delta": every slice starts at column 0.
RECURSIVE SplitActionsFromZero(_, _, _, _)
SplitActionsFromZero(env, action, k, index) ==
    IF k > Len(env.possible_agents) THEN <<>>
    ELSE LET agent == env.possible_agents[k]
             delta == env.action_dims[agent]
         IN  <<[agent |-> agent,
                value |-> [e \in DOMAIN action |-> SubSeq(action[e], 1, delta)]]>>
                \o SplitActionsFromZero(env, action, k + 1, index + delta)

\* The loop that builds _actions, from the agent at position k on, index
\* columns being taken: the entries of _actions in insertion order.
\* action[:, index : index + delta] keeps the columns that exist.
RECURSIVE SplitActions(_, _, _, _)
SplitActions(env, action, k, index) ==
    IF k > Len(env.possible_agents) THEN <<>>
    ELSE LET agent == env.possible_agents[k]
             delta == env.action_dims[agent]
             Slice(row) ==
                SubSeq(row, IF index < Len(row) THEN index + 1 ELSE Len(row) + 1,
                            IF index + delta < Len(row) THEN index + delta ELSE Len(row))
         IN  <<[agent |-> agent, value |-> [e \in DOMAIN action |-> Slice(action[e])]]>>
                \o SplitActions(env, action, k + 1, index + delta)

\* sum(rewards.values()): 0 + r1 + r2 + ..., on float32 tensors.
RECURSIVE SumValues(_, _, _)
SumValues(values, k, acc) ==
    IF k > Len(values) THEN acc
    ELSE SumValues(values, k + 1, [e \in DOMAIN acc |-> F32Add(acc[e], values[k][e])])

\* math.prod(values) on bool tensors: 1 * t1 * t2 * ..., an integer tensor.
RECURSIVE ProdValues(_, _, _)
ProdValues(values, k, acc) ==
    IF k > Len(values) THEN acc
    ELSE ProdValues(values, k + 1, [e \in DOMAIN acc |-> acc[e] * BoolFactor(values[k][e])])

\* math.prod(values).to(dtype=torch.bool)
ToBoolOfProd(values) ==
    [e \in Envs |-> ProdValues(values, 1, [f \in Envs |-> 1])[e] # 0]

\* A dict the wrapped environment returns: its keys, the agents, in the order
\* in which they were inserted, and the tensor of each.
Dict(keys, value) == [keys |-> keys, value |-> value]

\* The orders in which the wrapped environment may have inserted the agents.
KeyOrders(env) ==
    {keys \in [1 .. Len(env.possible_agents) -> DOMAIN env.action_dims] :
        \A i \in DOMAIN keys, j \in DOMAIN keys : keys[i] = keys[j] => i = j}

\* Values listing the tensors by the agents' names instead of by insertion.
ValuesSortedByKey(dict) == [k \in 1 .. Len(dict.keys) |-> dict.value[AgentName(k)]]

\* dict.values(): the tensors in insertion order.
Values(dict) == [k \in 1 .. Len(dict.keys) |-> dict.value[dict.keys[k]]]

\* What the wrapped environment returns for one environment instance: which
\* agents terminated and which timed out.  The driving loop takes a pattern of
\* terminations for every instance, and one pattern of time-outs for all.
FlagPatterns == {"all", "none", "first", "all but last"}

Flag(pattern, k, n) ==
    IF pattern = "all" THEN TRUE
    ELSE IF pattern = "none" THEN FALSE
    ELSE IF pattern = "first" THEN k = 1
    ELSE k < n

\* The action passed to step: a tensor of the width of the action space, every
\* entry naming its place.
ActionOf(env) == [e \in Envs |-> [c \in 1 .. ActionWidth(env) |-> 10 * e + c]]

\* The rewards the wrapped environment returns for environment instance e,
\* agent by agent: small ones, (k + e) / 2 for the k-th agent, or large ones
\* of both signs, 2^24, 1 + e and -2^24, whose float32 sums are rounded.
RewardPatterns == {"small", "large"}

Reward(pattern, k, e) ==
    IF pattern = "small" THEN <<k + e, 2>>
    ELSE IF k = 1 THEN <<SignificandLimit, 1>>
    ELSE IF k = 2 THEN <<1 + e, 1>>
    ELSE <<0 - SignificandLimit, 1>>

\* The place of agent in possible_agents.
AgentIndex(env, agent) ==
    CHOOSE k \in 1 .. Len(env.possible_agents) : env.possible_agents[k] = agent

RewardsOf(env, keys, pattern) ==
    Dict(keys, [a \in DOMAIN env.action_dims |->
                    [e \in Envs |-> F32OfFloat(Reward(pattern, AgentIndex(env, a), e))]])

FlagsOf(env, keys, patterns) ==
    Dict(keys, [a \in DOMAIN env.action_dims |->
                    [e \in Envs |-> Flag(patterns[e], AgentIndex(env, a), Len(env.possible_agents))]])

\* What step returns: the values themselves, or for multi_agent_with_one_agent
\* dicts with the one key "single-agent".
Exported(env, value) ==
    IF env.wrapper = "multi_agent_with_one_agent"
    THEN [a \in {"single-agent"} |-> value]
    ELSE value

\* Env.step of both conversions; obs and extras are left out.  The dicts
\* self.env.step returns are inputs: their keys in the order keys, the
\* rewards of reward_pattern and the flags of the two families of patterns.
WrapperStep(keys, reward_pattern, terminated_patterns, time_out_patterns) ==
    LET action     == ActionOf(self_env)
        actions    == SplitActions(self_env, action, 1, 0)
        rewards    == RewardsOf(self_env, keys, reward_pattern)
        terminated == FlagsOf(self_env, keys, terminated_patterns)
        time_outs  == FlagsOf(self_env, keys, time_out_patterns)
    IN  /\ last' = [op |-> "step", outcome |-> "done",
                    action |-> action,
                    actions |-> actions,
                    env_rewards |-> rewards,
                    env_terminated |-> terminated,
                    env_time_outs |-> time_outs,
                    rewards |-> Exported(self_env, SumValues(Values(rewards), 1, [e \in Envs |-> 0])),
                    terminated |-> Exported(self_env, ToBoolOfProd(Values(terminated))),
                    time_outs |-> Exported(self_env, ToBoolOfProd(Values(time_outs)))]
        /\ UNCHANGED <<event_vars, obs_vars, env_vars>>

CallWrapperStep ==
    /\ last.op = "idle"
    /\ \E keys \in KeyOrders(self_env), reward_pattern \in RewardPatterns,
          terminated_patterns \in [Envs -> FlagPatterns], time_out_pattern \in FlagPatterns :
          WrapperStep(keys, reward_pattern, terminated_patterns, [e \in Envs |-> time_out_pattern])

\* The wrapper around a multi-agent environment.
WrapInit ==
    /\ \E wrapper \in Wrappers, dims \in AgentActionDims : self_env = WrappedEnv(wrapper, dims)
    /\ NoEventManager
    /\ NoObservationManager
    /\ last = Idle

NextWrap == CallWrapperStep \/ Return

SpecWrap == WrapInit /\ [][NextWrap]_vars

-----------------------------------------------------------------------------
(* vocabulary of the properties *)

\* The last call was apply(mode, ...) and it ran the loop over the terms.
Applied(mode) == last.op = "apply" /\ last.mode = mode /\ last.outcome = "done"

TermsIn(mode) == mode_term_cfgs[mode]
Indices(mode) == 0 .. (Len(TermsIn(mode)) - 1)

\* The invocations of the term at position index made by the last call.
CallsFor(index) == {k \in 1 .. Len(last.calls) : last.calls[k].index = index}
Invoked(index) == CallsFor(index) # {}
InvokedOnceWith(index, S) ==
    /\ Cardinality(CallsFor(index)) = 1
    /\ \A k \in CallsFor(index) : EnvSet(last.calls[k].env_ids) = S

\* The environments the term at position index was invoked for.
InvokedFor(index) == UNION {EnvSet(last.calls[k].env_ids) : k \in CallsFor(index)}

\* The time-left tensor of an interval term after "time_left -= dt".
Decremented(index) ==
    LET dt == F32OfFloat(step_dt)
    IN  [p \in DOMAIN Nth(last.pre_time_left, index) |->
            F32Sub(Nth(last.pre_time_left, index)[p], dt)]

\* The float32 v against the Python float r[1]/r[2], compared as real numbers,
\* for 0 < r[1] < 16 and r[2] < 64: v is m * 2^-s, and m * r[2] is set
\* against r[1] * 2^s, both divided by 2^(s - 26) when s is above 26.
AtMost(v, r) ==
    IF v <= 0 THEN TRUE
    ELSE LET m == Significand(v) * r[2]
             s == 150 - Exponent(v)
         IN  IF s <= 0 THEN FALSE
             ELSE IF s <= 26 THEN m <= r[1] * Pow2(s)
             ELSE IF s > 56 THEN TRUE
             ELSE \/ m \div Pow2(s - 26) < r[1] * Pow2(26)
                  \/ m \div Pow2(s - 26) = r[1] * Pow2(26) /\ m % Pow2(s - 26) = 0

AtLeast(v, r) ==
    IF v <= 0 THEN FALSE
    ELSE LET m == Significand(v) * r[2]
             s == 150 - Exponent(v)
         IN  IF s <= 0 THEN TRUE
             ELSE IF s <= 26 THEN m >= r[1] * Pow2(s)
             ELSE IF s > 56 THEN FALSE
             ELSE m \div Pow2(s - 26) >= r[1] * Pow2(26)

\* lower <= v <= upper for the bounds of an interval_range_s.
InRange(v, range) == AtLeast(v, range[1]) /\ AtMost(v, range[2])

-----------------------------------------------------------------------------
(* reset gating *)

\* C1: apply("reset", env_ids=S, g) with an explicit S invokes each term with
\* threshold N > 0 with exactly {i in S : g - last_triggered[i] >= N}, stamps g
\* on exactly those entries, and does not invoke the term when the set is empty.
C1_GatedResetFiresElapsedOfSubset ==
    (Applied("reset") /\ ~last.env_ids.none) =>
        \A index \in Indices("reset") :
            LET N    == Nth(TermsIn("reset"), index).min_step_count_between_reset
                pre  == Nth(last.pre_last_step, index)
                post == Nth(reset_term_last_triggered_step_id, index)
                F    == {i \in EnvSet(last.env_ids) : last.g - pre[i] >= N}
            IN  N > 0 =>
                    /\ F = {} => ~Invoked(index)
                    /\ F # {} => InvokedOnceWith(index, F)
                    /\ \A i \in Envs : post[i] = IF i \in F THEN last.g ELSE pre[i]

\* C2: apply("reset", env_ids=S, g) invokes each term with threshold 0 exactly
\* once with the caller's S (all environments when S is None), whatever other
\* terms the mode has, and leaves last_triggered = g on every index of S.
C2_UngatedResetFiresForCallerSubset ==
    Applied("reset") =>
        \A index \in Indices("reset") :
            Nth(TermsIn("reset"), index).min_step_count_between_reset = 0 =>
                /\ InvokedOnceWith(index, EnvSet(last.env_ids))
                /\ \A i \in EnvSet(last.env_ids) :
                        Nth(reset_term_last_triggered_step_id, index)[i] = last.g

\* C3: apply("reset", env_ids=S, ...) changes the last-triggered entry of no
\* environment outside S, for every reset term.
C3_ResetStampsOnlyInsideSubset ==
    Applied("reset") =>
        \A index \in Indices("reset") :
            \A i \in Envs \ EnvSet(last.env_ids) :
                Nth(reset_term_last_triggered_step_id, index)[i] = Nth(last.pre_last_step, index)[i]

\* C4: apply("reset") for all environments (env_ids None) invokes a term with
\* threshold N > 0 for environment i exactly when g - last_triggered[i] >= N.
C4_GatedResetFiresIffElapsed ==
    (Applied("reset") /\ last.env_ids.none) =>
        \A index \in Indices("reset") :
            LET N == Nth(TermsIn("reset"), index).min_step_count_between_reset
            IN  N > 0 =>
                    \A i \in Envs :
                        (i \in InvokedFor(index)) <=> (last.g - Nth(last.pre_last_step, index)[i] >= N)

-----------------------------------------------------------------------------
(* interval timing *)

\* C5: apply("interval", dt) decrements the single time-left value of a term
\* with global timing by dt; the term is invoked exactly when the decremented
\* value is <= 0; if invoked, the value is replaced by one in [lower, upper],
\* otherwise it stays the decremented one.
C5_GlobalIntervalTimer ==
    Applied("interval") =>
        \A index \in Indices("interval") :
            LET term == Nth(TermsIn("interval"), index)
                post == Nth(interval_term_time_left, index)
                dec  == Decremented(index)
            IN  term.is_global_time =>
                    /\ Invoked(index) <=> dec[0] <= 0
                    /\ Cardinality(CallsFor(index)) <= 1
                    /\ Invoked(index) => InRange(post[0], term.interval_range_s)
                    /\ ~Invoked(index) => post[0] = dec[0]

\* C6: apply("interval", dt) invokes a term with per-environment timing with
\* exactly the environments whose time-left after the decrement is <= 0 (and
\* not at all when there is none), resamples a duration in [lower, upper] for
\* exactly those, and leaves every other entry at its decremented value.
C6_PerEnvIntervalTimer ==
    Applied("interval") =>
        \A index \in Indices("interval") :
            LET term == Nth(TermsIn("interval"), index)
                post == Nth(interval_term_time_left, index)
                dec  == Decremented(index)
                E    == {i \in Envs : dec[i] <= 0}
            IN  ~term.is_global_time =>
                    /\ E = {} => ~Invoked(index)
                    /\ E # {} => InvokedOnceWith(index, E)
                    /\ \A i \in E : InRange(post[i], term.interval_range_s)
                    /\ \A i \in Envs \ E : post[i] = dec[i]

\* T / dt for Python floats given as fractions.
IsMultipleOf(T, dt) == (T[1] * dt[2]) % (T[2] * dt[1]) = 0
Ratio(T, dt) == (T[1] * dt[2]) \div (T[2] * dt[1])

\* The timer entries of an interval term that elapsed in the last call.
FiredEntries(index) ==
    IF Nth(TermsIn("interval"), index).is_global_time
    THEN IF Invoked(index) THEN {0} ELSE {}
    ELSE InvokedFor(index)

\* C7: an interval term with the fixed range (T, T), driven from construction
\* by apply("interval", dt) with dt = T/k for an integer k >= 1, is invoked on
\* exactly every k-th call: an entry elapses in a call exactly when that call
\* is the k-th since the entry last elapsed (or since construction).
C7_FixedIntervalFiresEveryKthCall ==
    Applied("interval") =>
        \A index \in Indices("interval") :
            LET range == Nth(TermsIn("interval"), index).interval_range_s
            IN  (IsDegenerate(range) /\ IsMultipleOf(range[1], step_dt)) =>
                    \A p \in DOMAIN Nth(interval_term_time_left, index) :
                        (p \in FiredEntries(index))
                            <=> (Nth(last.pre_since, index)[p] + 1 = Ratio(range[1], step_dt))

\* C8: apply("interval", env_ids=S, dt) does not invoke a per-environment term
\* when no index of S has elapsed, even if an index outside S has.
C8_PerEnvIntervalSkipsWhenSubsetNotElapsed ==
    (Applied("interval") /\ ~last.env_ids.none) =>
        \A index \in Indices("interval") :
            (/\ ~Nth(TermsIn("interval"), index).is_global_time
             /\ \A i \in EnvSet(last.env_ids) : Decremented(index)[i] > 0)
                => ~Invoked(index)

-----------------------------------------------------------------------------
(* other modes, argument checks *)

\* C9: apply(mode, env_ids) for a mode other than "interval" and "reset"
\* invokes every term of the mode, once and in order, with the caller's
\* env_ids, whatever the term's min_step_count_between_reset, and writes no
\* time-left and no last-triggered buffer.
C9_OtherModesFireUnconditionally ==
    (last.op = "apply" /\ last.mode \notin {"interval", "reset"} /\ last.outcome = "done") =>
        /\ Len(last.calls) = Len(TermsIn(last.mode))
        /\ \A k \in 1 .. Len(last.calls) :
              last.calls[k] = Call(k - 1, last.env_ids)
        /\ interval_term_time_left = last.pre_time_left
        /\ reset_term_last_triggered_step_id = last.pre_last_step

\* A call of a mode whose term has a non-zero threshold, with an explicit
\* subset, on a manager that also holds a reset buffer with a stamped entry.
C9_Witness ==
    /\ last.op = "apply" /\ last.mode = "custom" /\ last.outcome = "done"
    /\ ~last.env_ids.none
    /\ EnvSet(last.env_ids) # Envs
    /\ \E k \in 1 .. Len(TermsIn("custom")) : TermsIn("custom")[k].min_step_count_between_reset > 0
    /\ Len(last.calls) > 0
    /\ \E index \in 0 .. (Len(reset_term_last_triggered_step_id) - 1), i \in Envs :
          Nth(reset_term_last_triggered_step_id, index)[i] > 0

\* The call lacks the argument its mode needs.
MissingArgument ==
    /\ last.op = "apply"
    /\ \/ last.mode = "interval" /\ ~last.dt_given
       \/ last.mode = "reset" /\ ~last.g_given

\* C10 as stated: every apply("interval") without dt and every apply("reset")
\* without the step count raises, whatever terms the manager has.
C10_MissingArgumentAlwaysRaises ==
    MissingArgument => last.outcome = "ValueError"

\* C10, amended: such a call raises exactly when the manager has a term of
\* that mode; otherwise the mode is undefined for the manager and the call is
\* skipped with a warning, without raising.
C10_MissingArgumentRaisesForDefinedMode ==
    MissingArgument =>
        /\ last.mode \in DOMAIN mode_term_names => last.outcome = "ValueError"
        /\ last.mode \notin DOMAIN mode_term_names => last.outcome = "skipped"

\* apply("reset") without a step count raised on a manager with a reset term.
C10_Witness ==
    /\ MissingArgument
    /\ last.mode = "reset"
    /\ "reset" \in DOMAIN mode_term_names
    /\ last.outcome = "ValueError"

\* C11: apply with a mode no term was configured for raises nothing, invokes
\* no term and leaves every time-left and every last-triggered buffer as it
\* was, whatever other arguments are given or missing.
C11_UndefinedModeIsNoOp ==
    (last.op = "apply" /\ last.mode \notin DOMAIN mode_term_names) =>
        /\ last.outcome = "skipped"
        /\ last.calls = <<>>
        /\ interval_term_time_left = last.pre_time_left
        /\ reset_term_last_triggered_step_id = last.pre_last_step

\* apply("interval") without dt on a manager that has no interval term but
\* holds a reset buffer with a stamped entry.
C11_Witness ==
    /\ last.op = "apply" /\ last.mode = "interval" /\ ~last.dt_given
    /\ "interval" \notin DOMAIN mode_term_names
    /\ last.outcome = "skipped"
    /\ \E index \in 0 .. (Len(reset_term_last_triggered_step_id) - 1), i \in Envs :
          Nth(reset_term_last_triggered_step_id, index)[i] > 0

-----------------------------------------------------------------------------
(* order of the terms *)

\* The position in the configuration of the entry with the given name.
NamePosition(name) == CHOOSE i \in 0 .. 4 : TermName(i) = name

\* C12: the terms of a mode are held in the declaration order of the
\* configuration, whatever calls were made; one apply call considers them in
\* that order and invokes each at most once, so the invocations of a call are
\* in strictly ascending declaration order.
C12_TermsInDeclarationOrder ==
    /\ \A mode \in DOMAIN mode_term_names :
          /\ Len(mode_term_names[mode]) = Len(mode_term_cfgs[mode])
          /\ \A k \in 1 .. Len(mode_term_names[mode]) :
                /\ Nth(cfg, NamePosition(mode_term_names[mode][k])).mode = mode
                /\ \A l \in 1 .. Len(mode_term_names[mode]) :
                      k < l => NamePosition(mode_term_names[mode][k])
                                    < NamePosition(mode_term_names[mode][l])
    /\ (last.op = "apply" /\ last.outcome = "done") =>
          /\ \A k \in 1 .. Len(last.calls) : last.calls[k].index \in Indices(last.mode)
          /\ \A k \in 1 .. Len(last.calls), l \in 1 .. Len(last.calls) :
                k < l => last.calls[k].index < last.calls[l].index

\* A call that invoked two terms of its mode, one after the other, on a
\* manager that had served an earlier call.
C12_Witness ==
    /\ last.op = "apply" /\ last.outcome = "done"
    /\ Len(last.calls) = 2
    /\ last.calls[1].index = 0 /\ last.calls[2].index = 1
    /\ last.mode = "reset"
    /\ \E i \in Envs : Nth(last.pre_last_step, 0)[i] > 0

-----------------------------------------------------------------------------
(* construction *)

\* There is a manager: the constructor returned.
Constructed == last.op # "construct"

CfgPositions == 1 .. Len(cfg)

\* The entry is a descriptor that the preparation-time checks accept.
ValidDescriptor(entry) ==
    /\ entry.type = "EventTermCfg"
    /\ entry.mode = "interval" => entry.interval_range_s # NoRange
    /\ entry.mode = "reset" => entry.min_step_count_between_reset >= 0

\* The configuration entries that are descriptors of the given mode.
DeclaredOfMode(mode) ==
    {i \in CfgPositions : cfg[i].type = "EventTermCfg" /\ cfg[i].mode = mode}

AllNames == UNION {SeqRange(mode_term_names[m]) : m \in DOMAIN mode_term_names}

\* C13: a configuration whose entries are None or valid descriptors is
\* accepted; an entry set to None is in the term list of no mode, has no
\* time-left and no last-triggered buffer (there is one buffer per interval
\* descriptor and one per reset descriptor), and no apply call invokes it:
\* every invocation is of a term that the configuration declares with a
\* descriptor.
C13_NoneTermsAreSkipped ==
    /\ (\A i \in CfgPositions : cfg[i].type = "NoneType" \/ ValidDescriptor(cfg[i])) => Constructed
    /\ Constructed =>
          /\ \A i \in CfgPositions : cfg[i].type = "NoneType" => TermName(i - 1) \notin AllNames
          /\ Cardinality(AllNames) = Cardinality({i \in CfgPositions : cfg[i].type # "NoneType"})
          /\ Len(interval_term_time_left) = Cardinality(DeclaredOfMode("interval"))
          /\ Len(reset_term_last_triggered_step_id) = Cardinality(DeclaredOfMode("reset"))
          /\ (last.op = "apply" /\ last.outcome = "done") =>
                \A k \in 1 .. Len(last.calls) :
                    /\ last.calls[k].index \in Indices(last.mode)
                    /\ Nth(cfg, NamePosition(Nth(mode_term_names[last.mode], last.calls[k].index))).type
                            = "EventTermCfg"

\* An apply call that invoked a term declared after an entry set to None, of
\* the same manager that has a second None entry after it.
C13_Witness ==
    /\ Len(cfg) = 3
    /\ cfg[1].type = "NoneType" /\ cfg[3].type = "NoneType"
    /\ last.op = "apply" /\ last.outcome = "done"
    /\ Len(last.calls) = 1
    /\ mode_term_names[last.mode] = <<TermName(1)>>

\* C17: construction fails, and there is no manager, when an entry other than
\* None is an interval descriptor without a range, a reset descriptor with a
\* negative threshold or no descriptor at all; so in a constructed manager
\* every interval term has a range and every reset term a threshold >= 0.
C17_InvalidTermFailsConstruction ==
    /\ (\E i \in CfgPositions : cfg[i].type # "NoneType" /\ ~ValidDescriptor(cfg[i])) =>
          /\ ~Constructed
          /\ last.outcome \in {"TypeError", "ValueError"}
          /\ DOMAIN mode_term_names = {}
    /\ Constructed =>
          \A mode \in DOMAIN mode_term_cfgs :
              \A k \in 1 .. Len(mode_term_cfgs[mode]) :
                  /\ mode = "interval" => mode_term_cfgs[mode][k].interval_range_s # NoRange
                  /\ mode = "reset" => mode_term_cfgs[mode][k].min_step_count_between_reset >= 0

\* A construction that failed on its last entry, a reset descriptor with a
\* negative threshold, after a None entry and a valid descriptor.
C17_Witness ==
    /\ ~Constructed
    /\ Len(cfg) = 3
    /\ cfg[1].type = "NoneType"
    /\ ValidDescriptor(cfg[2])
    /\ cfg[3].type = "EventTermCfg" /\ cfg[3].mode = "reset"
    /\ cfg[3].min_step_count_between_reset < 0
    /\ last.outcome = "ValueError"

-----------------------------------------------------------------------------
(* EventManager.reset *)

\* The class terms of the manager: the descriptors whose func is an instance.
ClassTermInstances ==
    {f \in UNION {{mode_term_cfgs[m][k].func : k \in 1 .. Len(mode_term_cfgs[m])}
                        : m \in DOMAIN mode_term_cfgs} :
        f.kind = "instance"}

\* C18: reset(env_ids) calls reset once on the instance of every class term
\* of every mode and on nothing else, each time with the caller's env_ids,
\* invokes no term function and returns an empty mapping.
C18_ResetResetsEveryClassTermOnce ==
    last.op = "reset" =>
        /\ \A inst \in ClassTermInstances :
              Cardinality({k \in 1 .. Len(last.resets) : last.resets[k].instance = inst}) = 1
        /\ \A k \in 1 .. Len(last.resets) :
              /\ last.resets[k].instance \in ClassTermInstances
              /\ last.resets[k].env_ids = last.env_ids
        /\ last.calls = <<>>
        /\ last.result = <<>>

\* reset with an explicit subset on a manager with class terms in two modes
\* and a function term.
C18_Witness ==
    /\ last.op = "reset"
    /\ ~last.env_ids.none /\ EnvSet(last.env_ids) # Envs
    /\ Len(last.resets) = 2
    /\ last.resets[1].instance # last.resets[2].instance
    /\ Cardinality(AllNames) = 3

-----------------------------------------------------------------------------
(* set_term_cfg and get_term_cfg *)

\* The slots (mode, position) of the term lists.
Slots == UNION {{<<m, k>> : k \in 1 .. Len(mode_term_names[m])} : m \in DOMAIN mode_term_names}

\* C14: set_term_cfg(n, d) with the name n of a configured term succeeds and
\* get_term_cfg(n), called right after it, returns d; the descriptor is stored
\* in the slot of n and the descriptor of every other term is the one from
\* before the call.  get_term_cfg(n) returns the descriptor in the slot of n.
C14_SetThenGetRoundTrip ==
    /\ (last.op = "set_term_cfg" /\ last.term_name \in AllNames) =>
          /\ last.outcome = "done"
          /\ GetTermCfgResult(last.term_name) = [outcome |-> "done", value |-> last.cfg]
          /\ \A slot \in Slots :
                mode_term_cfgs[slot[1]][slot[2]] =
                    IF mode_term_names[slot[1]][slot[2]] = last.term_name
                    THEN last.cfg
                    ELSE last.pre_term_cfgs[slot[1]][slot[2]]
    /\ (last.op = "get_term_cfg" /\ last.term_name \in AllNames) =>
          /\ last.outcome = "done"
          /\ \E slot \in Slots :
                /\ mode_term_names[slot[1]][slot[2]] = last.term_name
                /\ last.result = mode_term_cfgs[slot[1]][slot[2]]

\* set_term_cfg replaced the descriptor of the second term of its mode, in a
\* manager with three terms, by a descriptor of another mode.
C14_Witness ==
    /\ last.op = "set_term_cfg" /\ last.outcome = "done"
    /\ Cardinality(AllNames) = 3
    /\ \E slot \in Slots :
          /\ slot[2] = 2
          /\ mode_term_names[slot[1]][slot[2]] = last.term_name
          /\ last.cfg.type = "EventTermCfg"
          /\ last.cfg.mode # slot[1]
          /\ last.cfg # last.pre_term_cfgs[slot[1]][slot[2]]

\* C15: get_term_cfg(n) and set_term_cfg(n, d) with a name n of no configured
\* term raise, and the failed set_term_cfg leaves every descriptor, term list
\* and buffer as it was.
C15_UnknownNameRaises ==
    /\ (last.op \in {"set_term_cfg", "get_term_cfg"} /\ last.term_name \notin AllNames) =>
          last.outcome = "ValueError"
    /\ (last.op = "set_term_cfg" /\ last.outcome = "ValueError") =>
          /\ mode_term_cfgs = last.pre_term_cfgs
          /\ mode_term_names = last.pre_term_names
          /\ mode_class_term_cfgs = last.pre_class_term_cfgs
          /\ interval_term_time_left = last.pre_time_left
          /\ reset_term_last_triggered_step_id = last.pre_last_step

\* set_term_cfg failed for the name of a configuration entry set to None, on
\* a manager one of whose descriptors had been replaced before.
C15_Witness ==
    /\ last.op = "set_term_cfg" /\ last.outcome = "ValueError"
    /\ NamePosition(last.term_name) < Len(cfg)
    /\ Nth(cfg, NamePosition(last.term_name)).type = "NoneType"
    /\ \E slot \in Slots :
          mode_term_cfgs[slot[1]][slot[2]] \in NewTermCfgs

\* C16: set_term_cfg(n, d) rejects a value d that the preparation-time checks
\* reject, so every descriptor a manager holds satisfies those checks.
C16_SetTermCfgRevalidates ==
    /\ (last.op = "set_term_cfg" /\ ~ValidDescriptor(last.cfg)) => last.outcome # "done"
    /\ Constructed => \A slot \in Slots : ValidDescriptor(mode_term_cfgs[slot[1]][slot[2]])

-----------------------------------------------------------------------------
(* class terms of the ObservationManager *)

ObsTerms == group_obs_term_cfgs["policy"]

\* The number of columns a term contributes: grilled_chicken four, the class
\* term one.
Width(term) == IF term.func.kind = "instance" THEN 1 ELSE 4

\* The column of the group's tensor that holds the output of the class term
\* at position k.
RECURSIVE ColumnOf(_)
ColumnOf(k) == IF k = 1 THEN 1 ELSE ColumnOf(k - 1) + Width(ObsTerms[k - 1])

\* n steps of accumulation of a class term: n times its interval.
Accumulated(term, n) == F32Mul(F32OfFloat(<<n, 1>>), F32OfFloat(term.interval))

\* C19: reset(env_ids=S) zeroes the state of a class term for the indices in
\* S and leaves it as it was for every other index; a compute() then reports,
\* for every environment, as many steps of accumulation as compute() was
\* called since reset last named that environment: one step for the indices
\* in S right after the reset, k+1 for the others after k earlier calls.
C19_ResetZeroesExactlySubset ==
    /\ last.op = "reset" =>
          \A k \in DOMAIN time_passed, e \in Envs :
              time_passed[k][e] =
                  IF e \in EnvSet(last.env_ids) THEN 0 ELSE last.pre_time_passed[k][e]
    /\ last.op = "compute" =>
          \A k \in DOMAIN time_passed, e \in Envs :
              last.result["policy"][e][ColumnOf(k)] =
                  F32Scale(Accumulated(ObsTerms[k], computes_since_reset[e]), ObsTerms[k].scale)

\* A compute() after two earlier ones and a reset of some environments: the
\* class term reports one step for an environment that was reset and three
\* for one that was not.
C19_Witness ==
    /\ last.op = "compute"
    /\ \E k \in DOMAIN time_passed, e \in Envs, f \in Envs :
          /\ computes_since_reset[e] = 1
          /\ computes_since_reset[f] = 3
          /\ last.pre_time_passed[k][e] = 0
          /\ last.result["policy"][e][ColumnOf(k)] # last.result["policy"][f][ColumnOf(k)]
          /\ time_passed[k][f] = F32Mul(F32OfFloat(<<3, 1>>), time_passed[k][e])

\* C20: a class term is instantiated at preparation and compute() invokes
\* that instance: the descriptors keep the instance they were prepared with,
\* and for an environment that no reset named since construction the
\* instance's state after n compute() calls is n increments.
C20_InstanceKeepsStateAcrossCalls ==
    /\ \A k \in 1 .. Len(ObsTerms) :
          /\ ObsTerms[k].func.kind \in {"function", "instance"}
          /\ k \in DOMAIN time_passed <=> ObsTerms[k].func.kind = "instance"
    /\ last.op = "compute" => last.pre_term_cfgs = group_obs_term_cfgs
    /\ \A k \in DOMAIN time_passed, e \in Envs :
          computes_since_reset[e] = computes_total =>
              time_passed[k][e] = Accumulated(ObsTerms[k], computes_total)

\* Three compute() calls and no reset on a manager with a class term.
C20_Witness ==
    /\ last.op = "compute"
    /\ computes_total = 3
    /\ \A e \in Envs : computes_since_reset[e] = 3
    /\ \E k \in DOMAIN time_passed :
          \A e \in Envs : time_passed[k][e] = Accumulated(ObsTerms[k], 3)

-----------------------------------------------------------------------------
(* groups of the ObservationManager *)

\* The configuration's groups that concatenate their terms.
ConcatGroups == {n \in DOMAIN group_obs_term_cfgs : GroupOf(obs_cfg, n).concatenate_terms}

\* The number of columns before those of the term at position k of a list.
RECURSIVE OffsetOf(_, _)
OffsetOf(terms, k) == IF k = 1 THEN 0 ELSE OffsetOf(terms, k - 1) + TermDim(terms[k - 1]).width

TotalWidth(terms) == OffsetOf(terms, Len(terms) + 1)

\* The columns of term k of group n in the tensor compute() returned for the
\* group, for environment e.
ColumnsOf(n, k, e) ==
    SubSeq(last.result[n].rows[e],
           OffsetOf(group_obs_term_cfgs[n], k) + 1,
           OffsetOf(group_obs_term_cfgs[n], k) + TermDim(group_obs_term_cfgs[n][k]).width)

\* What a term's callable returns for environment e, before scaling.
RawRow(n, k, e) == RawOutput(group_obs_term_cfgs[n][k], time_passed, <<n, k>>).rows[e]

\* C21: for a group that concatenates its terms compute() returns one tensor
\* whose last dimension is the sum of the widths of the active terms; the
\* columns of each term follow those of the terms declared before it and hold
\* the term's output times the term's own scale: zeros for a scale of 0, and
\* equal columns for the same function with the same params and scale in two
\* groups.
C21_ConcatenatedGroupLayout ==
    last.op = "compute" =>
        /\ \A n \in ConcatGroups, e \in Envs :
              /\ Len(last.result[n].rows[e]) = TotalWidth(group_obs_term_cfgs[n])
              /\ \A k \in 1 .. Len(group_obs_term_cfgs[n]) :
                    LET term == group_obs_term_cfgs[n][k]
                        cols == ColumnsOf(n, k, e)
                    IN  /\ Len(cols) = Len(RawRow(n, k, e))
                        /\ \A c \in 1 .. Len(cols) :
                              cols[c] = F32Scale(RawRow(n, k, e)[c], term.scale)
                        /\ term.scale = Zero => \A c \in 1 .. Len(cols) : cols[c] = 0
        /\ \A n \in ConcatGroups, m \in ConcatGroups, e \in Envs :
              \A k \in 1 .. Len(group_obs_term_cfgs[n]), l \in 1 .. Len(group_obs_term_cfgs[m]) :
                  (/\ group_obs_term_cfgs[n][k] = group_obs_term_cfgs[m][l]
                   /\ ~IsClassTerm(group_obs_term_cfgs[n][k]))
                      => ColumnsOf(n, k, e) = ColumnsOf(m, l, e)

\* compute() on a manager whose group "policy" has terms of widths 4, 1 and 5
\* and returns 10 columns, and whose group "critic" starts with the same first
\* term and has a second term with scale 0 whose function returns 2.
C21_Witness ==
    /\ last.op = "compute"
    /\ ConcatGroups = {"policy", "critic"}
    /\ Len(group_obs_term_cfgs["policy"]) = 3
    /\ \A k \in 1 .. 3 : TermDim(group_obs_term_cfgs["policy"][k]).width = <<4, 1, 5>>[k]
    /\ \A e \in Envs : Len(last.result["policy"].rows[e]) = 10
    /\ Len(group_obs_term_cfgs["critic"]) = 2
    /\ group_obs_term_cfgs["critic"][1] = group_obs_term_cfgs["policy"][1]
    /\ group_obs_term_cfgs["critic"][2].scale = Zero
    /\ \A e \in Envs :
          /\ RawRow("critic", 2, e) = <<F32OfFloat(Two)>>
          /\ last.result["critic"].rows[e] = <<F32OfFloat(Ten), F32OfFloat(Ten), F32OfFloat(Ten), F32OfFloat(Ten), 0>>
          /\ last.result["policy"].rows[e][5] = F32OfFloat(<<5, 1>>)
          /\ last.result["policy"].rows[e][10] = F32OfFloat(Two)

\* The entries of a group configuration that are not None.
ActiveEntries(group_cfg) ==
    {group_cfg.terms[i] : i \in {j \in 1 .. Len(group_cfg.terms) : ~IsNone(group_cfg.terms[j])}}

\* The callable of the entry can be invoked and the entry's params name
\* parameters of it, all the required ones among them.
FitsCallable(entry) ==
    /\ HasCall(entry.func)
    /\ \A key \in DOMAIN entry.params :
          key \in Signature(entry.func).required \cup Signature(entry.func).optional
    /\ \A name \in Signature(entry.func).required : name \in DOMAIN entry.params

\* Every term of every group of the configuration fits its callable.
AllTermsFit ==
    \A i \in 1 .. Len(obs_cfg) : \A entry \in ActiveEntries(obs_cfg[i]) : FitsCallable(entry)

\* The number of dimensions of a term's output, the batch dimension included.
NumDims(entry) == 1 + Len(TermDim(entry).lead) + 1

\* The outputs of two terms differ in a dimension other than the last.
DifferBeforeLast(a, b) == TermDim(a).lead # TermDim(b).lead

\* C22 as stated: the constructor raises for every group with
\* concatenate_terms=True that holds a term whose output has more than two
\* dimensions.
C22_ImageTermInConcatGroupRejected ==
    AllTermsFit =>
        \A i \in 1 .. Len(obs_cfg) :
            (/\ obs_cfg[i].concatenate_terms
             /\ \E entry \in ActiveEntries(obs_cfg[i]) : NumDims(entry) > 2)
                => ~Constructed

\* C23: when every term fits its callable, the constructor accepts the
\* configuration exactly when, in every group with concatenate_terms=True, the
\* outputs of the active terms agree on every dimension but the last;
\* compute() then returns for such a group a tensor with those dimensions and
\* the sum of the terms' last dimensions.
C23_ConcatGroupAcceptedIffShapesAgree ==
    /\ AllTermsFit =>
          (Constructed <=>
              \A i \in 1 .. Len(obs_cfg) :
                  obs_cfg[i].concatenate_terms =>
                      \A a \in ActiveEntries(obs_cfg[i]), b \in ActiveEntries(obs_cfg[i]) :
                          ~DifferBeforeLast(a, b))
    /\ last.op = "compute" =>
          \A n \in ConcatGroups, e \in Envs :
              /\ \A k \in 1 .. Len(group_obs_term_cfgs[n]) :
                    last.result[n].lead = TermDim(group_obs_term_cfgs[n][k]).lead
              /\ Len(last.result[n].rows[e]) = TotalWidth(group_obs_term_cfgs[n])

\* compute() on a manager with a group that concatenates two image terms of
\* one and three channels: the group's tensor is (N, 128, 256, 4).
C23_Witness ==
    /\ last.op = "compute"
    /\ \E n \in ConcatGroups :
          /\ Len(group_obs_term_cfgs[n]) = 2
          /\ TermDim(group_obs_term_cfgs[n][1]) = [lead |-> <<128, 256>>, width |-> 1]
          /\ TermDim(group_obs_term_cfgs[n][2]) = [lead |-> <<128, 256>>, width |-> 3]
          /\ last.result[n].lead = <<128, 256>>
          /\ \A e \in Envs : Len(last.result[n].rows[e]) = 4

-----------------------------------------------------------------------------
(* the Term Resolver *)

\* The params of the entry hold a key that is no parameter of its callable.
HasExtraKey(entry) ==
    \E key \in DOMAIN entry.params :
        key \notin Signature(entry.func).required \cup Signature(entry.func).optional

\* The params of the entry lack a required parameter of its callable.
LacksRequired(entry) ==
    \E name \in Signature(entry.func).required : name \notin DOMAIN entry.params

AllActiveEntries == UNION {ActiveEntries(obs_cfg[i]) : i \in 1 .. Len(obs_cfg)}

\* The terms a manager holds.
AllObsTerms ==
    UNION {SeqRange(group_obs_term_cfgs[n]) : n \in DOMAIN group_obs_term_cfgs}

\* C24: the constructor raises, and there is no manager, when the params of a
\* term hold a key that is no parameter of the term's callable or lack a
\* required parameter of it (ValueError when nothing else is wrong with the
\* configuration); the params of every term of a constructed manager fit the
\* term's callable, so that no call of compute() fails on its arguments.
C24_ParamsMismatchFailsConstruction ==
    /\ (\E entry \in AllActiveEntries : HasExtraKey(entry) \/ LacksRequired(entry)) =>
          /\ ~Constructed
          /\ computes_total = 0
          /\ DOMAIN group_obs_term_cfgs = {}
          /\ last.outcome \in {"ValueError", "RuntimeError", "NotImplementedError"}
          /\ (\A i \in 1 .. Len(obs_cfg) :
                /\ \A entry \in ActiveEntries(obs_cfg[i]) : HasCall(entry.func)
                /\ \A a \in ActiveEntries(obs_cfg[i]), b \in ActiveEntries(obs_cfg[i]) :
                      (FitsCallable(a) /\ FitsCallable(b)) => ~DifferBeforeLast(a, b))
                => last.outcome = "ValueError"
    /\ Constructed =>
          \A term \in AllObsTerms : ~HasExtraKey(term) /\ ~LacksRequired(term)

\* A construction that failed with ValueError on a configuration whose first
\* group is accepted and whose second group has a term that lacks a required
\* parameter and no term with a key too many.
C24_Witness ==
    /\ ~Constructed
    /\ last.outcome = "ValueError"
    /\ Len(obs_cfg) = 2
    /\ PrepareGroupOutcome(obs_cfg[1]) = "done"
    /\ \E entry \in ActiveEntries(obs_cfg[2]) : LacksRequired(entry)
    /\ \A entry \in ActiveEntries(obs_cfg[2]) : ~HasExtraKey(entry)

\* C25: the constructor raises, and there is no manager, when the callable of
\* a term is a class that does not define __call__ (NotImplementedError when
\* the term is the first that is rejected); the callable of every term of a
\* constructed manager is a function or an instance of a class that defines
\* __call__, so that compute() can invoke it.
C25_ClassWithoutCallFailsConstruction ==
    /\ (\E entry \in AllActiveEntries : entry.func.kind = "class" /\ ~HasCall(entry.func)) =>
          /\ ~Constructed
          /\ computes_total = 0
          /\ DOMAIN group_obs_term_cfgs = {}
          /\ last.outcome \in {"ValueError", "RuntimeError", "NotImplementedError"}
          /\ (\A entry \in AllActiveEntries : ~HasExtraKey(entry) /\ ~LacksRequired(entry))
                => last.outcome \in {"NotImplementedError", "RuntimeError"}
    /\ Constructed =>
          \A term \in AllObsTerms :
              /\ term.func.kind \in {"function", "instance"}
              /\ HasCall(term.func)
    /\ last.op = "compute" => last.outcome = "done"

\* A construction that failed with NotImplementedError on the class without
\* __call__, declared after a function term in the second group, the first
\* group holding a term of a class that defines __call__.
C25_Witness ==
    /\ ~Constructed
    /\ last.outcome = "NotImplementedError"
    /\ Len(obs_cfg) = 2
    /\ \E entry \in ActiveEntries(obs_cfg[1]) : entry.func = complex_function_class
    /\ Len(obs_cfg[2].terms) = 2
    /\ obs_cfg[2].terms[1].func.kind = "function"
    /\ obs_cfg[2].terms[2].func = non_callable_complex_function_class

-----------------------------------------------------------------------------
(* converted multi-agent environments *)

\* The value step returns, taken out of the dict of multi_agent_with_one_agent.
SingleAgentValue(value) ==
    IF self_env.wrapper = "multi_agent_with_one_agent" THEN value["single-agent"] ELSE value

\* The number of halves in a float32 v that is a multiple of 0.5.
InHalves(v) ==
    LET halves == IF Exponent(v) >= 149 THEN Significand(v) * Pow2(Exponent(v) - 149)
                  ELSE Significand(v) \div Pow2(149 - Exponent(v))
    IN  IF v < 0 THEN 0 - halves ELSE halves

RECURSIVE JoinSlices(_, _, _)
JoinSlices(actions, e, k) ==
    IF k > Len(actions) THEN <<>> ELSE actions[k].value[e] \o JoinSlices(actions, e, k + 1)

\* What the last step did apart from the rewards: per environment instance
\* terminated = AND of the agents' terminated flags and time_outs = AND of
\* their time-out flags; the action split in possible_agents order into slices
\* of the agents' flattened action dimensions which, laid end to end, are the
\* action.
FlagsAndActionsCombined ==
    LET agents == self_env.possible_agents
        n      == Len(agents)
    IN  /\ \A e \in Envs :
              /\ SingleAgentValue(last.terminated)[e]
                    = (\A k \in 1 .. n : last.env_terminated.value[agents[k]][e])
              /\ SingleAgentValue(last.time_outs)[e]
                    = (\A k \in 1 .. n : last.env_time_outs.value[agents[k]][e])
              /\ JoinSlices(last.actions, e, 1) = last.action[e]
        /\ Len(last.actions) = n
        /\ \A k \in 1 .. n :
              /\ last.actions[k].agent = agents[k]
              /\ \A e \in Envs : Len(last.actions[k].value[e]) = self_env.action_dims[agents[k]]

CallerAcc ==
    [time_left |-> last.pre_time_left,
     last_step |-> last.pre_last_step,
     since     |-> last.pre_since,
     env_ids   |-> last.env_ids,
     calls     |-> <<>>]

\* The subsets the term at index was invoked with, in order.
SubsetsOf(calls, index) ==
    LET own == SelectSeq(calls, LAMBDA c : c.index = index)
    IN  [k \in 1 .. Len(own) |-> EnvSet(own[k].env_ids)]

\* The buffer entries of the term at index, of the mode called.
OwnBuffers(time_left, last_step, index) ==
    IF last.mode = "interval" THEN Nth(time_left, index)
    ELSE IF last.mode = "reset" THEN Nth(last_step, index)
    ELSE <<>>

\* C29: within one apply call every term of the mode is invoked, and its
\* buffers are updated, as its own loop body does from the env_ids the caller
\* passed and the term's own timer or gate state: the subset computed for an
\* earlier term of the mode does not reach it.
C29_TermSeesCallerEnvIds ==
    (last.op = "apply" /\ last.outcome = "done") =>
        \A index \in Indices(last.mode) :
            \E alone \in TermStep(last.mode, Nth(TermsIn(last.mode), index), index, CallerAcc,
                                  F32OfFloat(step_dt), last.g, RandDraws) :
                /\ SubsetsOf(last.calls, index) = SubsetsOf(alone.calls, index)
                /\ OwnBuffers(interval_term_time_left, reset_term_last_triggered_step_id, index)
                      = OwnBuffers(alone.time_left, alone.last_step, index)

\* The reset calls made so far all had a step count below the threshold of the
\* term at index, and none has stamped the term's entries.
StillInitial(index) ==
    \A e \in Envs : Nth(last.pre_last_step, index)[e] = 0

\* C30: a reset term with threshold N > 0 whose last-triggered entries still
\* hold their initial value 0 is not invoked by apply("reset") with a global
\* step count smaller than N (the first reset after construction, at step
\* count 0, among them), and its entries stay 0.
C30_GatedResetSilentBeforeThreshold ==
    Applied("reset") =>
        \A index \in Indices("reset") :
            LET N == Nth(TermsIn("reset"), index).min_step_count_between_reset
            IN  (N > 0 /\ last.g < N /\ StillInitial(index)) =>
                    /\ ~Invoked(index)
                    /\ \A e \in Envs : Nth(reset_term_last_triggered_step_id, index)[e] = 0

\* A term with threshold 2, alone in its mode and never fired, is passed over
\* by apply("reset") for all environments at step count 1.
C30_Witness ==
    /\ Applied("reset")
    /\ last.g = 1
    /\ last.env_ids.none
    /\ Len(TermsIn("reset")) = 1
    /\ Nth(TermsIn("reset"), 0).min_step_count_between_reset = 2
    /\ StillInitial(0)
    /\ ~Invoked(0)
    /\ \A e \in Envs : Nth(reset_term_last_triggered_step_id, 0)[e] = 0

\* C31: after construction and after every apply("interval", dt) with dt > 0,
\* every entry of the time-left buffer of an interval term with range
\* 0 < lower <= upper is strictly positive and at most upper: an entry that
\* reached <= 0 was resampled in the same call.
C31_TimeLeftPositiveAndBounded ==
    \A k \in 1 .. Len(interval_term_time_left) :
        LET upper == TermsOfMode(cfg, "interval")[k].interval_range_s[2]
        IN  \A p \in DOMAIN interval_term_time_left[k] :
                /\ interval_term_time_left[k][p] > 0
                /\ AtMost(interval_term_time_left[k][p], upper)

\* ceil(T / dt) of two fractions.
CeilRatio(T, dt) == ((T[1] * dt[2]) + (T[2] * dt[1]) - 1) \div (T[2] * dt[1])

\* C32: under apply("interval", dt) calls with a constant dt > 0, an entry of
\* an interval term elapses no sooner than ceil(lower / dt) calls and no later
\* than ceil(upper / dt) calls after it last elapsed (or after construction).
C32_IntervalFiresWithinBounds ==
    Applied("interval") =>
        \A index \in Indices("interval") :
            LET range == Nth(TermsIn("interval"), index).interval_range_s
            IN  \A p \in DOMAIN Nth(interval_term_time_left, index) :
                    LET calls == Nth(last.pre_since, index)[p] + 1
                    IN  /\ (p \in FiredEntries(index)) => calls >= CeilRatio(range[1], step_dt)
                        /\ (p \notin FiredEntries(index)) => calls < CeilRatio(range[2], step_dt)

\* The instances of term classes among the descriptors apply walks.
CurrentInstances ==
    {term_cfg.func : term_cfg \in
        {t \in UNION {SeqRange(mode_term_cfgs[m]) : m \in DOMAIN mode_term_cfgs} :
            IsEventTermCfg(t) /\ IsClassTerm(t)}}

\* C33: reset(env_ids) calls reset on exactly the stateful term instances
\* among the descriptors apply would invoke, each once and with the env_ids
\* passed, also after set_term_cfg calls.
C33_ResetFollowsInstalledTerms ==
    (last.op = "reset" /\ last.outcome = "done") =>
        /\ {last.resets[k].instance : k \in 1 .. Len(last.resets)} = CurrentInstances
        /\ Len(last.resets) = Cardinality(CurrentInstances)
        /\ \A k \in 1 .. Len(last.resets) : last.resets[k].env_ids = last.env_ids

\* available_modes: list(self._mode_term_names.keys())
AvailableModes(names) == DOMAIN names

\* C34: reset(env_ids) and set_term_cfg(name, cfg) leave every time-left
\* buffer, every last-triggered buffer, active_terms and available_modes as
\* they were; a replaced term keeps its bucket and its slot, also when the new
\* descriptor names another mode.
C34_ResetAndSetTermCfgKeepBuffers ==
    [][(last'.op \in {"reset", "set_term_cfg"}) =>
            /\ interval_term_time_left' = interval_term_time_left
            /\ reset_term_last_triggered_step_id' = reset_term_last_triggered_step_id
            /\ mode_term_names' = mode_term_names
            /\ AvailableModes(mode_term_names') = AvailableModes(mode_term_names)
            /\ DOMAIN mode_term_cfgs' = DOMAIN mode_term_cfgs
            /\ \A m \in DOMAIN mode_term_cfgs : Len(mode_term_cfgs'[m]) = Len(mode_term_cfgs[m])]_vars

\* set_term_cfg has put a descriptor of mode "interval" in the slot of a term
\* of the bucket "reset": the name is still in that bucket and the
\* last-triggered buffer of the slot is the one that was there.
C34_Witness ==
    /\ last.op = "set_term_cfg"
    /\ last.outcome = "done"
    /\ IsEventTermCfg(last.cfg)
    /\ last.cfg.mode = "interval"
    /\ "reset" \in DOMAIN mode_term_names
    /\ last.term_name \in SeqRange(mode_term_names["reset"])
    /\ Nth(mode_term_cfgs["reset"], IndexOf(mode_term_names["reset"], last.term_name)) = last.cfg
    /\ mode_term_names = last.pre_term_names
    /\ reset_term_last_triggered_step_id = last.pre_last_step
    /\ Len(reset_term_last_triggered_step_id) = Len(mode_term_names["reset"])
    /\ interval_term_time_left = last.pre_time_left

\* C35: an apply call that raises for a missing dt or a missing step count
\* has invoked no term and has changed no time-left and no last-triggered
\* entry: the manager is as it was before the call.
C35_FailedApplyChangesNothing ==
    (last.op = "apply" /\ last.outcome = "ValueError") =>
        /\ last.calls = <<>>
        /\ interval_term_time_left = last.pre_time_left
        /\ reset_term_last_triggered_step_id = last.pre_last_step
        /\ calls_since_fire = last.pre_since

\* apply("reset") without the step count has raised on a manager whose first
\* reset term has threshold 0 and was stamped at step 2 by an earlier call.
C35_Witness ==
    /\ last.op = "apply"
    /\ last.mode = "reset"
    /\ ~last.g_given
    /\ last.outcome = "ValueError"
    /\ Nth(TermsIn("reset"), 0).min_step_count_between_reset = 0
    /\ \A e \in Envs : Nth(reset_term_last_triggered_step_id, 0)[e] = 2
    /\ last.calls = <<>>

=============================================================================
